---------------------------- MODULE Spec2Model ----------------------------
(***************************************************************************)
(* The review engine of ado-auto-review: reviewPullRequest and the         *)
(* detectors and policy checks it drives (src/src/utils/adoClient.ts,      *)
(* lines 400-966), and the handler of /api/review that calls it            *)
(* (src/src/app/api/review/route.ts, lines 33-66).                         *)
(*                                                                         *)
(* A JavaScript string is a sequence of one-character strings, so that     *)
(* includes, replace, endsWith, split and the regular expressions of the   *)
(* source are computed on the text and not assumed.  The comment above a   *)
(* sequence of characters gives the text it spells.                        *)
(***************************************************************************)
EXTENDS Integers, Sequences, FiniteSets, TLC

VARIABLES
    provider,          \* what the change-set provider (Azure DevOps) returns
    request,           \* the call: GET /api/review?prId=..., or reviewPullRequest(id)
    pc,                \* position of the handler and of reviewPullRequest
    calls,             \* the provider calls made so far, in order
    error,             \* message of the Error thrown by reviewPullRequest
    response,          \* the response of the handler of /api/review
    diff,              \* the arguments and the result of findMovedBlocks
    idx,               \* index of the change entry the file loop is at
    statistics,        \* the statistics object (line 572)
    suggestions,       \* the suggestions array, in the order of the pushes
    securityIssues,    \* Set<string> (line 580), in insertion order
    performanceIssues, \* Set<string> (line 581), in insertion order
    report,            \* the CodeReviewResult returned (line 730)
    peer               \* the locals of a second, suspended call of reviewPullRequest

vars == <<provider, request, pc, calls, error, response, diff, idx, statistics,
          suggestions, securityIssues, performanceIssues, report, peer>>

---------------------------------------------------------------------------
(* Bounds of the model                                                     *)

MaxFiles == 2      \* change entries of a pull request
MaxCommits == 2    \* commits of a pull request

---------------------------------------------------------------------------
(* Character classes of the regular expressions                            *)

LowerCase == {"a","b","c","d","e","f","g","h","i","j","k","l","m",
              "n","o","p","q","r","s","t","u","v","w","x","y","z"}
UpperCase == {"A","B","C","D","E","F","G","H","I","J","K","L","M",
              "N","O","P","Q","R","S","T","U","V","W","X","Y","Z"}
Digit == {"0","1","2","3","4","5","6","7","8","9"}
\* \w
WordChar == LowerCase \cup UpperCase \cup Digit \cup {"_"}
\* \s, as far as the texts of the model go
WhiteSpace == {" ", "\t", "\n", "\r"}
\* what . does not match
LineTerminator == {"\n", "\r"}

\* String.prototype.toLowerCase, one character
lowerOf == [c \in UpperCase |->
    CASE c = "A" -> "a" [] c = "B" -> "b" [] c = "C" -> "c" [] c = "D" -> "d"
      [] c = "E" -> "e" [] c = "F" -> "f" [] c = "G" -> "g" [] c = "H" -> "h"
      [] c = "I" -> "i" [] c = "J" -> "j" [] c = "K" -> "k" [] c = "L" -> "l"
      [] c = "M" -> "m" [] c = "N" -> "n" [] c = "O" -> "o" [] c = "P" -> "p"
      [] c = "Q" -> "q" [] c = "R" -> "r" [] c = "S" -> "s" [] c = "T" -> "t"
      [] c = "U" -> "u" [] c = "V" -> "v" [] c = "W" -> "w" [] c = "X" -> "x"
      [] c = "Y" -> "y" [] c = "Z" -> "z"]

---------------------------------------------------------------------------
(* String.prototype operations                                             *)

\* does sub occur in s at the 1-based position i
occursAt(s, sub, i) ==
    /\ i >= 1
    /\ i + Len(sub) - 1 <= Len(s)
    /\ SubSeq(s, i, i + Len(sub) - 1) = sub

\* the 1-based positions at or after start where sub occurs in s
occurrences(s, sub, start) ==
    {i \in start..(Len(s) - Len(sub) + 1) : occursAt(s, sub, i)}

Min(S) == CHOOSE x \in S : \A y \in S : x <= y

\* s.includes(sub)
includes(s, sub) == occurrences(s, sub, 1) # {}

\* s.indexOf(sub): 0-based, -1 when sub does not occur
indexOf(s, sub) ==
    IF includes(s, sub) THEN Min(occurrences(s, sub, 1)) - 1 ELSE -1

\* s.startsWith(sub)
startsWith(s, sub) == occursAt(s, sub, 1)

\* s.endsWith(sub)
endsWith(s, sub) ==
    Len(sub) <= Len(s) /\ SubSeq(s, Len(s) - Len(sub) + 1, Len(s)) = sub

\* s.substring(i): s from the 1-based position i on
substring(s, i) == SubSeq(s, i, Len(s))

\* s.replace(pattern, replacement) with a string pattern: the FIRST
\* occurrence only, wherever it is
replace(s, pattern, replacement) ==
    IF ~includes(s, pattern) THEN s
    ELSE LET i == Min(occurrences(s, pattern, 1))
         IN  SubSeq(s, 1, i - 1) \o replacement \o substring(s, i + Len(pattern))

\* s.toLowerCase()
toLowerCase(s) ==
    [i \in 1..Len(s) |-> IF s[i] \in UpperCase THEN lowerOf[s[i]] ELSE s[i]]

\* the positions of the line feeds of s[first..last], in order (by halves)
RECURSIVE lineFeeds(_, _, _)
lineFeeds(s, first, last) ==
    IF first > last THEN <<>>
    ELSE IF first = last THEN (IF s[first] = "\n" THEN <<first>> ELSE <<>>)
    ELSE LET h == (first + last) \div 2
         IN  lineFeeds(s, first, h) \o lineFeeds(s, h + 1, last)

\* s.split('\n'): the lines of s
split(s) ==
    LET nl == lineFeeds(s, 1, Len(s))
        n == Len(nl) + 1
        \* position of the k-th line feed; 0 before the first line, Len+1 after the last
        at(k) == IF k = 0 THEN 0
                 ELSE IF k = n THEN Len(s) + 1
                 ELSE nl[k]
    IN  [k \in 1..n |-> SubSeq(s, at(k - 1) + 1, at(k) - 1)]

\* lines.join('\n'), by halves
RECURSIVE join(_)
join(lines) ==
    IF Len(lines) = 0 THEN <<>>
    ELSE IF Len(lines) = 1 THEN lines[1]
    ELSE LET h == Len(lines) \div 2
         IN  join(SubSeq(lines, 1, h)) \o <<"\n">>
                 \o join(SubSeq(lines, h + 1, Len(lines)))

\* the length of the longest run of characters of class that starts at the
\* position i of s (a greedy [class]*)
run(s, class, i) ==
    Min({j \in i..(Len(s) + 1) : j = Len(s) + 1 \/ s[j] \notin class}) - i

\* the same for a negated class: the longest run of characters none of which
\* is in excluded (a greedy [^excluded]*)
runNot(s, excluded, i) ==
    Min({j \in i..(Len(s) + 1) : j = Len(s) + 1 \/ s[j] \in excluded}) - i

\* \b at the position i of s: between s[i-1] and s[i]
wordBoundary(s, i) ==
    LET isWord(j) == j >= 1 /\ j <= Len(s) /\ s[j] \in WordChar
    IN  isWord(i - 1) # isWord(i)

\* The matches of a regular expression with the g flag: leftmost first, each
\* search resuming after the previous match.  ends[i] is the position after
\* the match that starts at i, and 0 when none starts there.  The result is
\* the sequence of <<start, end>> of the matches.
RECURSIVE globalMatches(_, _)
globalMatches(ends, start) ==
    LET hits == {i \in start..Len(ends) : ends[i] # 0}
    IN  IF hits = {} THEN <<>>
        ELSE LET i == Min(hits)
             IN  <<<<i, ends[i]>>>> \o globalMatches(ends, ends[i])

\* the texts of those matches
matchTexts(s, ms) == [k \in 1..Len(ms) |-> SubSeq(s, ms[k][1], ms[k][2] - 1)]

\* Number.prototype.toString of a natural number (template literal ${n})
RECURSIVE numberToString(_)
numberToString(n) ==
    LET digit == <<"0","1","2","3","4","5","6","7","8","9">>[(n % 10) + 1]
    IN  IF n < 10 THEN <<digit>> ELSE numberToString(n \div 10) \o <<digit>>

\* the elements of a sequence
Range(seq) == {seq[i] : i \in 1..Len(seq)}

\* an Array.prototype.push in place of the Set: a value is kept every time
setAdd_withDuplicates(set, value) == Append(set, value)

\* Set.prototype.add on a Set kept in insertion order
setAdd(set, value) == IF value \in Range(set) THEN set ELSE Append(set, value)

---------------------------------------------------------------------------
(* Helper functions for code analysis (lines 750-900)                      *)

\* /function\s+\w+\s*\([^)]*\)\s*{([^}]*)}/ at the position i: the position
\* after the match, 0 when it does not match there
functionEnd(s, i) ==
    IF ~occursAt(s, <<"f","u","n","c","t","i","o","n">>, i) THEN 0
    ELSE
    LET a == i + 8
        b == a + run(s, WhiteSpace, a)
        c == b + run(s, WordChar, b)
        d == c + run(s, WhiteSpace, c)
        e == d + 1 + runNot(s, {")"}, d + 1)
        f == e + 1 + run(s, WhiteSpace, e + 1)
        g == f + 1 + runNot(s, {"}"}, f + 1)
    IN  IF /\ b > a
           /\ c > b
           /\ occursAt(s, <<"(">>, d)
           /\ occursAt(s, <<")">>, e)
           /\ occursAt(s, <<"{">>, f)
           /\ occursAt(s, <<"}">>, g)
        THEN g + 1 ELSE 0

\* /if|while|for|&&|\|\||switch|catch/ at the position i
branchEnd(s, i) ==
    IF occursAt(s, <<"i","f">>, i) THEN i + 2
    ELSE IF occursAt(s, <<"w","h","i","l","e">>, i) THEN i + 5
    ELSE IF occursAt(s, <<"f","o","r">>, i) THEN i + 3
    ELSE IF occursAt(s, <<"&","&">>, i) THEN i + 2
    ELSE IF occursAt(s, <<"|","|">>, i) THEN i + 2
    ELSE IF occursAt(s, <<"s","w","i","t","c","h">>, i) THEN i + 6
    ELSE IF occursAt(s, <<"c","a","t","c","h">>, i) THEN i + 5
    ELSE 0

\* /\.then\(|\bcallback\(|\basync\s+/ at the position i
nestingEnd(s, i) ==
    IF occursAt(s, <<".","t","h","e","n","(">>, i) THEN i + 6
    ELSE IF wordBoundary(s, i) /\ occursAt(s, <<"c","a","l","l","b","a","c","k","(">>, i) THEN i + 9
    ELSE IF /\ wordBoundary(s, i)
            /\ occursAt(s, <<"a","s","y","n","c">>, i)
            /\ run(s, WhiteSpace, i + 5) > 0
         THEN i + 5 + run(s, WhiteSpace, i + 5)
    ELSE 0

\* `High cyclomatic complexity (${complexity}). Consider breaking down the function.`
complexityMessage(complexity) ==
    <<"H","i","g","h"," ","c","y","c","l","o","m","a","t","i","c"," ","c","o","m","p","l","e","x","i","t","y"," ","(">> \o numberToString(complexity)
        \o <<")","."," ","C","o","n","s","i","d","e","r"," ","b","r","e","a","k","i","n","g"," ","d","o","w","n"," ","t","h","e"," ","f","u","n","c","t","i","o","n",".">>

DeepNestingMessage ==
    <<"D","e","e","p"," ","n","e","s","t","i","n","g"," ","o","f"," ","a","s","y","n","c"," ","o","p","e","r","a","t","i","o","n","s"," ","d","e","t","e","c","t","e","d","."," ","C","o","n","s","i","d","e","r"," ","u","s","i","n","g"," ","a","s","y","n","c","/","a","w","a","i","t"," ","o","r"," ","b","r","e","a","k","i","n","g"," ","d","o","w","n"," ","t","h","e"," ","c","h","a","i","n",".">>

\* analyzeCodeComplexity (lines 750-775)
analyzeCodeComplexity(content) ==
    LET functionMatches ==
            matchTexts(content,
                globalMatches([i \in 1..Len(content) |-> functionEnd(content, i)], 1))
        complexity(func) ==
            Len(globalMatches([i \in 1..Len(func) |-> branchEnd(func, i)], 1))
        issue(func) ==
            IF complexity(func) > 10
            THEN <<[message |-> complexityMessage(complexity(func)), severity |-> "high"]>>
            ELSE <<>>
        RECURSIVE perFunction(_)
        perFunction(k) ==
            IF k > Len(functionMatches) THEN <<>>
            ELSE issue(functionMatches[k]) \o perFunction(k + 1)
        nestingLevel ==
            Len(globalMatches([i \in 1..Len(content) |-> nestingEnd(content, i)], 1))
    IN  perFunction(1) \o
        (IF nestingLevel > 3
         THEN <<[message |-> DeepNestingMessage, severity |-> "medium"]>>
         ELSE <<>>)

EvalMessage == <<"U","s","a","g","e"," ","o","f"," ","e","v","a","l","(",")"," ","d","e","t","e","c","t","e","d"," ","-"," ","p","o","t","e","n","t","i","a","l"," ","s","e","c","u","r","i","t","y"," ","r","i","s","k">>
InnerHtmlMessage == <<"D","i","r","e","c","t"," ","i","n","n","e","r","H","T","M","L"," ","m","a","n","i","p","u","l","a","t","i","o","n"," ","d","e","t","e","c","t","e","d"," ","-"," ","X","S","S"," ","r","i","s","k">>

\* `Sensitive environment variable ${envVar} might be exposed`
sensitiveMessage(envVar) ==
    <<"S","e","n","s","i","t","i","v","e"," ","e","n","v","i","r","o","n","m","e","n","t"," ","v","a","r","i","a","b","l","e"," ">> \o envVar \o <<" ","m","i","g","h","t"," ","b","e"," ","e","x","p","o","s","e","d">>

\* /innerHTML\s*=/
matchesInnerHtml(s) ==
    \E i \in 1..Len(s) :
        /\ occursAt(s, <<"i","n","n","e","r","H","T","M","L">>, i)
        /\ occursAt(s, <<"=">>, i + 9 + run(s, WhiteSpace, i + 9))

\* /process\.env\.([A-Z_]+)/ at the position i
envVarEnd(s, i) ==
    IF occursAt(s, <<"p","r","o","c","e","s","s",".","e","n","v",".">>, i) /\ run(s, UpperCase \cup {"_"}, i + 12) > 0
    THEN i + 12 + run(s, UpperCase \cup {"_"}, i + 12)
    ELSE 0

\* the messages checkSecurityIssues passes to issues.add, in the order of the
\* calls (lines 779-794)
securityMessages(content) ==
    LET envVars == matchTexts(content,
            globalMatches([i \in 1..Len(content) |-> envVarEnd(content, i)], 1))
        isSensitive(envVar) ==
            \/ includes(envVar, <<"K","E","Y">>)
            \/ includes(envVar, <<"S","E","C","R","E","T">>)
            \/ includes(envVar, <<"P","A","S","S","W","O","R","D">>)
    IN  (IF includes(content, <<"e","v","a","l","(">>) THEN <<EvalMessage>> ELSE <<>>)
        \o (IF matchesInnerHtml(content) THEN <<InnerHtmlMessage>> ELSE <<>>)
        \o [k \in 1..Len(SelectSeq(envVars, isSensitive)) |->
                sensitiveMessage(SelectSeq(envVars, isSensitive)[k])]

\* issues.add of each message of a sequence, in order
RECURSIVE addAll(_, _)
addAll(issues, messages) ==
    IF messages = <<>> THEN issues
    ELSE addAll(setAdd(issues, Head(messages)), Tail(messages))

PrototypeMessage == <<"P","r","o","t","o","t","y","p","e"," ","m","o","d","i","f","i","c","a","t","i","o","n"," ","d","e","t","e","c","t","e","d"," ","-"," ","c","a","n"," ","c","a","u","s","e"," ","p","e","r","f","o","r","m","a","n","c","e"," ","i","s","s","u","e","s">>
LoopsMessage ==
    <<"M","u","l","t","i","p","l","e"," ","n","e","s","t","e","d"," ","l","o","o","p","s"," ","o","r"," ","a","r","r","a","y"," ","o","p","e","r","a","t","i","o","n","s"," ","d","e","t","e","c","t","e","d"," ","-"," ","p","o","t","e","n","t","i","a","l"," ","p","e","r","f","o","r","m","a","n","c","e"," ","b","o","t","t","l","e","n","e","c","k">>
SelectorMessage == <<"C","o","n","s","i","d","e","r"," ","u","s","i","n","g"," ","m","o","r","e"," ","s","p","e","c","i","f","i","c"," ","s","e","l","e","c","t","o","r","s"," ","o","r"," ","c","a","c","h","i","n","g"," ","D","O","M"," ","q","u","e","r","i","e","s">>

\* /for\s*\(|while\s*\(|forEach|map|filter|reduce/ at the position i
loopEnd(s, i) ==
    LET afterFor == i + 3 + run(s, WhiteSpace, i + 3)
        afterWhile == i + 5 + run(s, WhiteSpace, i + 5)
    IN  IF occursAt(s, <<"f","o","r">>, i) /\ occursAt(s, <<"(">>, afterFor) THEN afterFor + 1
        ELSE IF occursAt(s, <<"w","h","i","l","e">>, i) /\ occursAt(s, <<"(">>, afterWhile)
             THEN afterWhile + 1
        ELSE IF occursAt(s, <<"f","o","r","E","a","c","h">>, i) THEN i + 7
        ELSE IF occursAt(s, <<"m","a","p">>, i) THEN i + 3
        ELSE IF occursAt(s, <<"f","i","l","t","e","r">>, i) THEN i + 6
        ELSE IF occursAt(s, <<"r","e","d","u","c","e">>, i) THEN i + 6
        ELSE 0

\* the messages checkPerformanceIssues passes to issues.add, in the order of
\* the calls (lines 799-810)
performanceMessages(content) ==
    LET hasManyLoops ==
            Len(globalMatches([i \in 1..Len(content) |-> loopEnd(content, i)], 1)) > 5
    IN  (IF includes(content, <<"A","r","r","a","y",".","p","r","o","t","o","t","y","p","e">>) \/ includes(content, <<"O","b","j","e","c","t",".","p","r","o","t","o","t","y","p","e">>)
         THEN <<PrototypeMessage>> ELSE <<>>)
        \o (IF hasManyLoops THEN <<LoopsMessage>> ELSE <<>>)
        \o (IF includes(content, <<"d","o","c","u","m","e","n","t",".","q","u","e","r","y","S","e","l","e","c","t","o","r","A","l","l">>)
            THEN <<SelectorMessage>> ELSE <<>>)

UnclearNamesMessage ==
    <<"F","o","u","n","d"," ","v","a","r","i","a","b","l","e","s"," ","w","i","t","h"," ","u","n","c","l","e","a","r"," ","n","a","m","e","s","."," ","C","o","n","s","i","d","e","r"," ","u","s","i","n","g"," ","m","o","r","e"," ","d","e","s","c","r","i","p","t","i","v","e"," ","n","a","m","e","s",".">>
VarMessage == <<"U","s","e"," ","o","f"," ","v","a","r"," ","d","e","t","e","c","t","e","d","."," ","P","r","e","f","e","r"," ","c","o","n","s","t"," ","o","r"," ","l","e","t"," ","f","o","r"," ","b","e","t","t","e","r"," ","s","c","o","p","i","n","g",".">>

\* /\b[a-z_]{1,2}\b(?!\s*:)/
matchesBadVariableName(s) ==
    \E i \in 1..Len(s) : \E n \in {1, 2} :
        /\ wordBoundary(s, i)
        /\ run(s, LowerCase \cup {"_"}, i) >= n
        /\ wordBoundary(s, i + n)
        /\ ~occursAt(s, <<":">>, i + n + run(s, WhiteSpace, i + n))

\* analyzeCodeStyle (lines 813-834)
analyzeCodeStyle(content) ==
    (IF matchesBadVariableName(content)
     THEN <<[message |-> UnclearNamesMessage, severity |-> "medium"]>> ELSE <<>>)
    \o
    (IF includes(content, <<"v","a","r"," ">>)
     THEN <<[message |-> VarMessage, severity |-> "medium"]>> ELSE <<>>)

ConditionalHookMessage == <<"H","o","o","k","s"," ","s","h","o","u","l","d"," ","n","o","t"," ","b","e"," ","c","a","l","l","e","d"," ","i","n","s","i","d","e"," ","c","o","n","d","i","t","i","o","n","s">>
EmptyDependencyMessage ==
    <<"E","m","p","t","y"," ","d","e","p","e","n","d","e","n","c","y"," ","a","r","r","a","y"," ","i","n"," ","u","s","e","E","f","f","e","c","t"," ","-"," ","v","e","r","i","f","y"," ","i","f"," ","t","h","i","s"," ","i","s"," ","i","n","t","e","n","d","e","d">>

\* /use[A-Z]\w+/ at the position i
hookEnd(s, i) ==
    IF /\ occursAt(s, <<"u","s","e">>, i)
       /\ i + 3 <= Len(s)
       /\ s[i + 3] \in UpperCase
       /\ run(s, WordChar, i + 4) > 0
    THEN i + 4 + run(s, WordChar, i + 4)
    ELSE 0

\* /use\w+/
matchesUseWord(s) ==
    \E i \in 1..Len(s) : occursAt(s, <<"u","s","e">>, i) /\ run(s, WordChar, i + 3) > 0

\* /if\s*\(.*\)\s*{[^}]*use[A-Z]\w+/
matchesConditionalHook(s) ==
    \E i \in 1..Len(s) :
        /\ occursAt(s, <<"i","f">>, i)
        /\ LET a == i + 2 + run(s, WhiteSpace, i + 2)
           IN  /\ occursAt(s, <<"(">>, a)
               /\ \E j \in (a + 1)..Len(s) :
                    /\ s[j] = ")"
                    /\ \A m \in (a + 1)..(j - 1) : s[m] \notin LineTerminator
                    /\ LET b == j + 1 + run(s, WhiteSpace, j + 1)
                       IN  /\ occursAt(s, <<"{">>, b)
                           /\ \E h \in (b + 1)..Len(s) :
                                /\ \A m \in (b + 1)..(h - 1) : s[m] # "}"
                                /\ hookEnd(s, h) # 0

\* /useEffect\(\s*\(\)\s*=>\s*{[^}]*},\s*\[(.*?)\]/ at the position i
effectEnd(s, i) ==
    IF ~occursAt(s, <<"u","s","e","E","f","f","e","c","t","(">>, i) THEN 0
    ELSE
    LET a == i + 10 + run(s, WhiteSpace, i + 10)
        b == a + 2 + run(s, WhiteSpace, a + 2)
        c == b + 2 + run(s, WhiteSpace, b + 2)
        d == c + 1 + runNot(s, {"}"}, c + 1)
        e == d + 2 + run(s, WhiteSpace, d + 2)
        f == e + 1 + runNot(s, {"]"} \cup LineTerminator, e + 1)
    IN  IF /\ occursAt(s, <<"(",")">>, a)
           /\ occursAt(s, <<"=",">">>, b)
           /\ occursAt(s, <<"{">>, c)
           /\ occursAt(s, <<"}",",">>, d)
           /\ occursAt(s, <<"[">>, e)
           /\ occursAt(s, <<"]">>, f)
        THEN f + 1 ELSE 0

\* analyzeReactCode (lines 836-865)
analyzeReactCode(content) ==
    LET hookCalls == matchTexts(content,
            globalMatches([i \in 1..Len(content) |-> hookEnd(content, i)], 1))
        hooks ==
            IF /\ includes(content, <<"u","s","e","S","t","a","t","e">>) \/ includes(content, <<"u","s","e","E","f","f","e","c","t">>)
               /\ \E k \in 1..Len(hookCalls) : matchesUseWord(hookCalls[k])
               /\ matchesConditionalHook(content)
            THEN <<[message |-> ConditionalHookMessage, severity |-> "high"]>>
            ELSE <<>>
        effectCalls == matchTexts(content,
            globalMatches([i \in 1..Len(content) |-> effectEnd(content, i)], 1))
        RECURSIVE forEach(_)
        forEach(k) ==
            IF k > Len(effectCalls) THEN <<>>
            ELSE (IF includes(effectCalls[k], <<"[","]">>)
                  THEN <<[message |-> EmptyDependencyMessage, severity |-> "medium"]>>
                  ELSE <<>>) \o forEach(k + 1)
    IN  hooks \o forEach(1)

MovedBlocksMessage ==
    <<"L","a","r","g","e"," ","b","l","o","c","k","s"," ","o","f"," ","c","o","d","e"," ","a","p","p","e","a","r"," ","t","o"," ","b","e"," ","m","o","v","e","d","."," ","C","o","n","s","i","d","e","r"," ","e","x","t","r","a","c","t","i","n","g"," ","i","n","t","o"," ","s","h","a","r","e","d"," ","f","u","n","c","t","i","o","n","s","/","c","o","m","p","o","n","e","n","t","s",".">>

\* minBlockSize (line 887)
minBlockSize == 5

\* findMovedBlocks (lines 885-900); i is the 0-based loop index
RECURSIVE movedBlocksFrom(_, _, _)
movedBlocksFrom(oldLines, newLines, i) ==
    IF ~(i < Len(oldLines) - minBlockSize) THEN 0
    ELSE LET block == join(SubSeq(oldLines, i + 1, i + minBlockSize))
             newIndex == indexOf(join(newLines), block)
             distance == IF newIndex - i >= 0 THEN newIndex - i ELSE i - newIndex
         IN  IF newIndex # -1 /\ distance > minBlockSize
             THEN 1 + movedBlocksFrom(oldLines, newLines, i + (minBlockSize - 1) + 1)
             ELSE movedBlocksFrom(oldLines, newLines, i + 1)

findMovedBlocks(oldLines, newLines) == movedBlocksFrom(oldLines, newLines, 0)

\* the same loop with every window counted and no skip: i++ only
RECURSIVE countedFrom_withoutSkip(_, _, _)
countedFrom_withoutSkip(oldLines, newLines, i) ==
    IF ~(i < Len(oldLines) - minBlockSize) THEN <<>>
    ELSE LET block == join(SubSeq(oldLines, i + 1, i + minBlockSize))
             newIndex == indexOf(join(newLines), block)
             distance == IF newIndex - i >= 0 THEN newIndex - i ELSE i - newIndex
         IN  IF newIndex # -1 /\ distance > minBlockSize
             THEN <<i>> \o countedFrom_withoutSkip(oldLines, newLines, i + 1)
             ELSE countedFrom_withoutSkip(oldLines, newLines, i + 1)

\* the loop of findMovedBlocks (lines 889-897) from the 0-based index i: the
\* values of i at which movedBlocks++ runs, in order
RECURSIVE countedFrom(_, _, _)
countedFrom(oldLines, newLines, i) ==
    IF ~(i < Len(oldLines) - minBlockSize) THEN <<>>
    ELSE LET block == join(SubSeq(oldLines, i + 1, i + minBlockSize))
             newIndex == indexOf(join(newLines), block)
             distance == IF newIndex - i >= 0 THEN newIndex - i ELSE i - newIndex
         IN  IF newIndex # -1 /\ distance > minBlockSize
             \* i += minBlockSize - 1, then i++
             THEN <<i>> \o countedFrom(oldLines, newLines, i + (minBlockSize - 1) + 1)
             ELSE countedFrom(oldLines, newLines, i + 1)

\* the same with the finding given from 3 moved blocks on
analyzeDiff_fromThree(oldContent, newContent) ==
    LET oldLines == split(oldContent)
        newLines == split(newContent)
        movedBlocks == findMovedBlocks(oldLines, newLines)
    IN  IF movedBlocks >= 3
        THEN <<[message |-> MovedBlocksMessage, severity |-> "medium"]>>
        ELSE <<>>

\* analyzeDiff (lines 867-883)
analyzeDiff(oldContent, newContent) ==
    LET oldLines == split(oldContent)
        newLines == split(newContent)
        movedBlocks == findMovedBlocks(oldLines, newLines)
    IN  IF movedBlocks > 3
        THEN <<[message |-> MovedBlocksMessage, severity |-> "medium"]>>
        ELSE <<>>

---------------------------------------------------------------------------
(* Policy checks, ranking and summary (lines 902-966)                      *)

CommitTypes == {<<"f","e","a","t">>, <<"f","i","x">>, <<"d","o","c","s">>, <<"s","t","y","l","e">>, <<"r","e","f","a","c","t","o","r">>, <<"t","e","s","t">>, <<"c","h","o","r","e">>}

\* /: .{1,50}/ at the start of s (the expression has no $: one character
\* that . matches is enough)
matchesColonSubject(s) ==
    /\ Len(s) >= 3
    /\ s[1] = ":"
    /\ s[2] = " "
    /\ s[3] \notin LineTerminator

\* /(\(.+\))?: .{1,50}/ at the start of s
matchesScopeSubject(s) ==
    \/ matchesColonSubject(s)
    \/ /\ occursAt(s, <<"(">>, 1)
       /\ \E k \in 3..Len(s) :
            /\ s[k] = ")"
            /\ \A j \in 2..(k - 1) : s[j] \notin LineTerminator
            /\ matchesColonSubject(substring(s, k + 1))

\* /^(feat|fix|docs|style|refactor|test|chore)(\(.+\))?: .{1,50}/.test(message)
hasConventionalFormat(message) ==
    \E type \in CommitTypes :
        /\ startsWith(message, type)
        /\ matchesScopeSubject(substring(message, Len(type) + 1))

\* the same without toLowerCase: only 'wip' in lower case is found
isDescriptive_caseSensitive(message) ==
    Len(message) >= 10 /\ ~includes(message, <<"w","i","p">>)

\* message.length >= 10 && !message.toLowerCase().includes('wip')  (line 908)
isDescriptive(message) ==
    Len(message) >= 10 /\ ~includes(toLowerCase(message), <<"w","i","p">>)

\* analyzeCommitMessages (lines 902-911)
analyzeCommitMessages(commits) ==
    \A k \in 1..Len(commits) :
        LET message == IF commits[k].hasComment THEN commits[k].comment ELSE <<>>
        IN  hasConventionalFormat(message) /\ isDescriptive(message)

BranchTypes == {<<"f","e","a","t","u","r","e">>, <<"b","u","g","f","i","x">>, <<"h","o","t","f","i","x">>, <<"r","e","l","e","a","s","e">>}

\* analyzeBranchNaming (lines 913-920):
\* /^(feature|bugfix|hotfix|release)\/[a-z0-9-]+$/.test(branchName)
analyzeBranchNaming(branchName) ==
    LET isValid ==
            \E type \in BranchTypes :
                /\ startsWith(branchName, type \o <<"/">>)
                /\ LET description == substring(branchName, Len(type) + 2)
                   IN  /\ Len(description) >= 1
                       /\ \A i \in 1..Len(description) :
                            description[i] \in LowerCase \cup Digit \cup {"-"}
    IN  [isValid |-> isValid,
         message |-> IF isValid THEN "Branch naming follows conventions"
                     ELSE "Branch name should follow pattern: type/description"]

\* pr.sourceRefName?.replace('refs/heads/', '') || ''  (line 724)
sourceBranchOf(pr) ==
    IF pr.hasSourceRef THEN replace(pr.sourceRefName, <<"r","e","f","s","/","h","e","a","d","s","/">>, <<>>) ELSE <<>>

\* the same with includes('.md') in place of endsWith('.md')
analyzeDocumentation_includesMd(changes) ==
    LET docFiles == SelectSeq(changes, LAMBDA change :
            /\ change.hasPath
            /\ \/ includes(change.path, <<"R","E","A","D","M","E">>)
               \/ includes(change.path, <<"d","o","c","s","/">>)
               \/ includes(change.path, <<".","m","d">>))
    IN  [hasUpdates |-> Len(docFiles) > 0,
         message |-> IF Len(docFiles) > 0 THEN "Documentation has been updated"
                     ELSE "Consider updating documentation"]

\* analyzeDocumentation (lines 927-938)
analyzeDocumentation(changes) ==
    LET docFiles == SelectSeq(changes, LAMBDA change :
            /\ change.hasPath
            /\ \/ includes(change.path, <<"R","E","A","D","M","E">>)
               \/ includes(change.path, <<"d","o","c","s","/">>)
               \/ endsWith(change.path, <<".","m","d">>))
    IN  [hasUpdates |-> Len(docFiles) > 0,
         message |-> IF Len(docFiles) > 0 THEN "Documentation has been updated"
                     ELSE "Consider updating documentation"]

\* severityScore (lines 940-942)
severityScore(severity) ==
    CASE severity = "high" -> 3
      [] severity = "medium" -> 2
      [] severity = "low" -> 1
      [] OTHER -> 0

\* the comparator with its operands exchanged: the lowest severity first
compareSeverity_reversed(a, b) == severityScore(a.severity) - severityScore(b.severity)

\* the comparator of lines 732-733
compareSeverity(a, b) == severityScore(b.severity) - severityScore(a.severity)

\* Array.prototype.sort with that comparator.  The sort of ECMAScript 2019 is
\* stable: an element goes after the elements the comparator does not put
\* behind it, so an insertion from the left gives its result.
RECURSIVE sortPrefix(_, _)
sortPrefix(list, n) ==
    IF n = 0 THEN <<>>
    ELSE LET sorted == sortPrefix(list, n - 1)
             x == list[n]
             k == Cardinality({i \in 1..Len(sorted) : compareSeverity(sorted[i], x) <= 0})
         IN  SubSeq(sorted, 1, k) \o <<x>> \o SubSeq(sorted, k + 1, Len(sorted))

\* a sort that is not stable: equal elements come out in the opposite order
sortBySeverity_unstable(list) ==
    sortPrefix([i \in 1..Len(list) |-> list[Len(list) + 1 - i]], Len(list))

sortBySeverity(list) == sortPrefix(list, Len(list))

\* the same with the findings of the files counted and the change-set-wide
\* findings left out
generatePRSummary_filesOnly(pr, stats, list) ==
    LET files == SelectSeq(list, LAMBDA s : s.file # <<"m","u","l","t","i","p","l","e"," ","f","i","l","e","s">>)
        highSeverityCount == Len(SelectSeq(files, LAMBDA s : s.severity = "high"))
        mediumSeverityCount == Len(SelectSeq(files, LAMBDA s : s.severity = "medium"))
    IN  <<"R","e","v","i","e","w"," ","o","f"," ","P","R"," ","#">> \o numberToString(pr.pullRequestId) \o <<":"," ">> \o pr.title \o <<"\n">>
        \o <<"F","o","u","n","d"," ">> \o numberToString(highSeverityCount) \o <<" ","h","i","g","h","-","s","e","v","e","r","i","t","y"," ","a","n","d"," ">>
        \o numberToString(mediumSeverityCount) \o <<" ","m","e","d","i","u","m","-","s","e","v","e","r","i","t","y"," ","i","s","s","u","e","s",".">> \o <<"\n">>
        \o <<"C","h","a","n","g","e","d"," ">> \o numberToString(stats.filesChanged) \o <<" ","f","i","l","e","s"," ","w","i","t","h"," ","+">>
        \o numberToString(stats.additions) \o <<"/","-">> \o numberToString(stats.deletions)
        \o <<" ","l","i","n","e","s",".">>

\* generatePRSummary (lines 959-965): the template string
generatePRSummary(pr, stats, list) ==
    LET highSeverityCount == Len(SelectSeq(list, LAMBDA s : s.severity = "high"))
        mediumSeverityCount == Len(SelectSeq(list, LAMBDA s : s.severity = "medium"))
    IN  <<"R","e","v","i","e","w"," ","o","f"," ","P","R"," ","#">> \o numberToString(pr.pullRequestId) \o <<":"," ">> \o pr.title \o <<"\n">>
        \o <<"F","o","u","n","d"," ">> \o numberToString(highSeverityCount) \o <<" ","h","i","g","h","-","s","e","v","e","r","i","t","y"," ","a","n","d"," ">>
        \o numberToString(mediumSeverityCount) \o <<" ","m","e","d","i","u","m","-","s","e","v","e","r","i","t","y"," ","i","s","s","u","e","s",".">> \o <<"\n">>
        \o <<"C","h","a","n","g","e","d"," ">> \o numberToString(stats.filesChanged) \o <<" ","f","i","l","e","s"," ","w","i","t","h"," ","+">>
        \o numberToString(stats.additions) \o <<"/","-">> \o numberToString(stats.deletions)
        \o <<" ","l","i","n","e","s",".">>

---------------------------------------------------------------------------
(* What the provider can return: file contents, change entries, commits,   *)
(* pull requests                                                           *)

\* let total = 10
Plain == <<"l","e","t"," ","t","o","t","a","l"," ","="," ","1","0">>

\* eval(process.env.DB_KEY1)
KeyOne == <<"e","v","a","l","(","p","r","o","c","e","s","s",".","e","n","v",".","D","B","_","K","E","Y","1",")">>

\* var k = process.env.DB_KEY2
\* if (k) { run(k) }
KeyTwo == <<"v","a","r"," ","k"," ","="," ","p","r","o","c","e","s","s",".","e","n","v",".","D","B","_","K","E","Y","2","\n","i","f"," ","(","k",")"," ","{"," ","r","u","n","(","k",")"," ","}">>

\* send(process.env.API_SECRET)
\* rows.map(f).filter(g).reduce(h)
\* rows.map(f).filter(g).forEach(h)
Secret == <<"s","e","n","d","(","p","r","o","c","e","s","s",".","e","n","v",".","A","P","I","_","S","E","C","R","E","T",")","\n","r","o","w","s",".","m","a","p","(","f",")",".","f","i","l","t","e","r","(","g",")",".","r","e","d","u","c","e","(","h",")","\n","r","o","w","s",".","m","a","p","(","f",")",".","f","i","l","t","e","r","(","g",")",".","f","o","r","E","a","c","h","(","h",")">>

\* if (on) { useState(0) }
Hooky == <<"i","f"," ","(","o","n",")"," ","{"," ","u","s","e","S","t","a","t","e","(","0",")"," ","}">>

\* let a = 1
\* let b = 2
\* let c = 3
\* let d = 4
OldLong == <<"l","e","t"," ","a"," ","="," ","1","\n","l","e","t"," ","b"," ","="," ","2","\n","l","e","t"," ","c"," ","="," ","3","\n","l","e","t"," ","d"," ","="," ","4">>

\* count copies of a text, one after the other
RECURSIVE repeat(_, _)
repeat(text, count) == IF count = 0 THEN <<>> ELSE text \o repeat(text, count - 1)

\* a function whose body holds eleven braced if statements:
\* function f(a) { if (a) { a = 1 } if (a) { a = 1 } ... }
Nested == <<"f","u","n","c","t","i","o","n"," ","f","(","a",")"," ","{">> \o repeat(<<" ","i","f"," ","(","a",")"," ","{"," ","a"," ","="," ","1"," ","}">>, 11) \o <<" ","}">>

\* a function whose body holds eleven && and no brace:
\* function g(a) { return a && a && a ... }
Branchy == <<"f","u","n","c","t","i","o","n"," ","g","(","a",")"," ","{"," ","r","e","t","u","r","n"," ","a">> \o repeat(<<" ","&","&"," ","a">>, 11) \o <<" ","}">>

\* a file of 301 empty lines
Lines301 == [k \in 1..300 |-> "\n"]

ContentNames == {"Plain", "KeyOne", "KeyTwo", "Secret", "Hooky", "OldLong",
                 "Nested", "Branchy", "Lines301"}

\* Buffer.prototype.toString of the content of that name
ContentText == [name \in ContentNames |->
    CASE name = "Plain" -> Plain
      [] name = "KeyOne" -> KeyOne
      [] name = "KeyTwo" -> KeyTwo
      [] name = "Secret" -> Secret
      [] name = "Hooky" -> Hooky
      [] name = "OldLong" -> OldLong
      [] name = "Nested" -> Nested
      [] name = "Branchy" -> Branchy
      [] name = "Lines301" -> Lines301]

\* /src/a.ts
PathTs == <<"/","s","r","c","/","a",".","t","s">>
\* /src/a.tsx
PathTsx == <<"/","s","r","c","/","a",".","t","s","x">>
\* /src/a.test.tsx
PathTestTsx == <<"/","s","r","c","/","a",".","t","e","s","t",".","t","s","x">>
\* /test/a.tsx
PathTestDir == <<"/","t","e","s","t","/","a",".","t","s","x">>
\* /docs/guide.txt
PathDocs == <<"/","d","o","c","s","/","g","u","i","d","e",".","t","x","t">>
\* /README
PathReadme == <<"/","R","E","A","D","M","E">>
\* /notes.md
PathMd == <<"/","n","o","t","e","s",".","m","d">>
\* /notes.mdx
PathMdx == <<"/","n","o","t","e","s",".","m","d","x">>

\* A change entry (GitPullRequestChange).  newContent is what the first
\* getItemContent of the file gives: the name of a content, "absent" (a null
\* result) or "throws"; hasPrevious says whether item.previousVersionBase is
\* set, and oldContent is what the second getItemContent then gives: the name
\* of a content, "absent" (neither Buffer nor Uint8Array) or "throws".
entry(path, newContent, hasPrevious, oldContent) ==
    [hasPath |-> TRUE, path |-> path, newContent |-> newContent,
     hasPrevious |-> hasPrevious, oldContent |-> oldContent]

\* an entry with no item or no path
NoPathEntry ==
    [hasPath |-> FALSE, path |-> <<>>, newContent |-> "absent",
     hasPrevious |-> FALSE, oldContent |-> "absent"]

NewOutcomes == {"Plain", "KeyOne", "KeyTwo", "Secret", "Hooky", "absent", "throws"}

\* The entries of the model: the two source files with every outcome of the
\* content fetch; the test, documentation and other files with plain content;
\* a test file and a documentation file with content the detectors react to;
\* a source file with a previous version that is fetched, missing or failing,
\* longer or shorter than the new one; source files with functions; a source
\* file of 301 lines.
Entries ==
    {entry(p, n, FALSE, "absent") : p \in {PathTs, PathTsx}, n \in NewOutcomes}
    \cup {entry(p, "Plain", FALSE, "absent") :
            p \in {PathTestTsx, PathTestDir, PathDocs, PathReadme, PathMd, PathMdx}}
    \cup {entry(PathTestTsx, "KeyOne", FALSE, "absent"),
          entry(PathMd, "KeyTwo", FALSE, "absent")}
    \cup {entry(PathTs, n, TRUE, o) :
            n \in {"Plain", "KeyTwo"}, o \in {"OldLong", "absent", "throws"}}
    \cup {entry(PathTs, "KeyTwo", TRUE, "Plain"),
          entry(PathTs, "Nested", FALSE, "absent"),
          entry(PathTsx, "Branchy", FALSE, "absent"),
          entry(PathTsx, "Lines301", FALSE, "absent")}
    \cup {NoPathEntry}

\* changes: the result of getPullRequestIterationChanges; changeEntries may
\* be undefined
changesOf(entries) == [hasEntries |-> TRUE, changeEntries |-> entries]
UndefinedChanges == [hasEntries |-> FALSE, changeEntries |-> <<>>]

ChangeSets ==
    {UndefinedChanges} \cup
    {changesOf(es) : es \in UNION {[1..n -> Entries] : n \in 0..MaxFiles}}

\* feat: add login
CommitGood == <<"f","e","a","t",":"," ","a","d","d"," ","l","o","g","i","n">>
\* fix(ui): align
CommitScoped == <<"f","i","x","(","u","i",")",":"," ","a","l","i","g","n">>
\* fix: typo
CommitShort == <<"f","i","x",":"," ","t","y","p","o">>
\* feat: WIP login
CommitWip == <<"f","e","a","t",":"," ","W","I","P"," ","l","o","g","i","n">>
\* update the readme
CommitPlain == <<"u","p","d","a","t","e"," ","t","h","e"," ","r","e","a","d","m","e">>
\* feat: <newline>add login
CommitBrokenSubject == <<"f","e","a","t",":"," ","\n","a","d","d"," ","l","o","g","i","n">>
\* fix(): align it
CommitEmptyScope == <<"f","i","x","(",")",":"," ","a","l","i","g","n"," ","i","t">>

commit(comment) == [hasComment |-> TRUE, comment |-> comment]
\* a commit with no comment
NoCommentCommit == [hasComment |-> FALSE, comment |-> <<>>]

Commits ==
    {commit(c) : c \in {CommitGood, CommitScoped, CommitShort, CommitWip,
                        CommitPlain, CommitBrokenSubject, CommitEmptyScope}}
    \cup {NoCommentCommit}

CommitLists == UNION {[1..n -> Commits] : n \in 0..MaxCommits}

\* refs/heads/feature/add-login
RefFeature == <<"r","e","f","s","/","h","e","a","d","s","/","f","e","a","t","u","r","e","/","a","d","d","-","l","o","g","i","n">>
\* feature/add-login
RefBare == <<"f","e","a","t","u","r","e","/","a","d","d","-","l","o","g","i","n">>
\* my-branch
RefMyBranch == <<"m","y","-","b","r","a","n","c","h">>
\* Feature/Add-Login
RefCapital == <<"F","e","a","t","u","r","e","/","A","d","d","-","L","o","g","i","n">>
\* feature/refs/heads/x
RefInner == <<"f","e","a","t","u","r","e","/","r","e","f","s","/","h","e","a","d","s","/","x">>
\* refs/heads/hotfix/refs/heads/x
RefTwice == <<"r","e","f","s","/","h","e","a","d","s","/","h","o","t","f","i","x","/","r","e","f","s","/","h","e","a","d","s","/","x">>

\* a second pull request of the repository, with its identifier and whether
\* the authenticated user created it
otherPullRequest(id, createdByUser) ==
    [exists |-> TRUE, createdByUser |-> createdByUser,
     pr |-> [pullRequestId |-> id, title |-> <<"O","t","h","e","r"," ","w","o","r","k">>,
             hasSourceRef |-> TRUE, sourceRefName |-> RefFeature]]

\* no second pull request
NoOther == [otherPullRequest(0, FALSE) EXCEPT !.exists = FALSE]

Others == {NoOther, otherPullRequest(0, FALSE), otherPullRequest(0, TRUE),
           otherPullRequest(9, FALSE)}

\* the pull request of the repository
pullRequest(sourceRefName) ==
    [pullRequestId |-> 7, title |-> <<"A","d","d"," ","l","o","g","i","n">>,
     hasSourceRef |-> TRUE, sourceRefName |-> sourceRefName]
\* a pull request with no sourceRefName
NoRefPullRequest ==
    [pullRequestId |-> 7, title |-> <<"A","d","d"," ","l","o","g","i","n">>,
     hasSourceRef |-> FALSE, sourceRefName |-> <<>>]

PullRequests ==
    {pullRequest(r) : r \in {RefFeature, RefBare, RefMyBranch, RefCapital,
                             RefInner, RefTwice}}
    \cup {NoRefPullRequest}

\* What the provider and the environment hold during one call.  hasToken and
\* hasProject: process.env.ADO_PAT and process.env.ADO_PROJECT are set;
\* hasUserId: connect() names the authenticated user; exists: the repository
\* holds the pull request pr; createdByUser: pr was created by the
\* authenticated user; hasIterations: pr has a latest iteration with an id;
\* fault: the number, in the order of the calls, of the provider call that
\* throws (0 when none does).
\* other: a second pull request of the repository, older than pr.
world(pr, changes, commits) ==
    [pr |-> pr, changes |-> changes, commits |-> commits,
     hasToken |-> TRUE, hasProject |-> TRUE, hasUserId |-> TRUE,
     exists |-> TRUE, createdByUser |-> TRUE, hasIterations |-> TRUE,
     fault |-> 0, other |-> NoOther]

\* the most provider calls of one request: four of getLatestPullRequests and
\* six of reviewPullRequest
Faults == 0..10

\* one thing missing, or nothing
Defects == {"none", "hasToken", "hasProject", "hasUserId", "exists",
            "createdByUser", "hasIterations"}

without(w, defect) ==
    [w EXCEPT !.hasToken = defect # "hasToken",
              !.hasProject = defect # "hasProject",
              !.hasUserId = defect # "hasUserId",
              !.exists = defect # "exists",
              !.createdByUser = defect # "createdByUser",
              !.hasIterations = defect # "hasIterations"]

\* the change-sets of one well-formed pull request, and the faults of the
\* provider on an empty one
Worlds ==
    {world(pullRequest(RefFeature), cs, <<commit(CommitGood)>>) : cs \in ChangeSets}
    \cup {[world(pullRequest(RefFeature), changesOf(<<>>), <<commit(CommitGood)>>)
                EXCEPT !.fault = f] : f \in Faults}

\* the pull requests and commit lists of a small change-set, and the faults of
\* the provider
PolicyWorlds ==
    {world(pr, cs, commits) :
        pr \in PullRequests,
        cs \in {changesOf(<<>>), changesOf(<<entry(PathTsx, "Hooky", FALSE, "absent")>>)},
        commits \in CommitLists}
    \cup {[world(pullRequest(RefFeature), changesOf(<<>>), <<commit(CommitGood)>>)
                EXCEPT !.fault = f] : f \in Faults}


\* a small change-set under every defect and fault, and under every defect
\* with a second pull request in the repository
RouteWorlds ==
    {[without(world(pullRequest(RefFeature), cs, <<commit(CommitGood)>>), d)
            EXCEPT !.fault = f] :
        d \in Defects, f \in Faults,
        cs \in {changesOf(<<>>), changesOf(<<entry(PathTsx, "Hooky", FALSE, "absent")>>)}}
    \cup {[without(world(pullRequest(RefFeature), changesOf(<<>>), <<commit(CommitGood)>>), d)
            EXCEPT !.other = o] :
        d \in Defects, o \in Others}
---------------------------------------------------------------------------
(* The calls: the identifiers, the requests, and the functions that look   *)
(* the pull request up (adoClient.ts lines 400-569)                        *)

\* A JavaScript number that holds an identifier, NaN, or undefined
number(n) == [defined |-> TRUE, isNaN |-> FALSE, value |-> n]
NaN == [defined |-> TRUE, isNaN |-> TRUE, value |-> 0]
Undefined == [defined |-> FALSE, isNaN |-> FALSE, value |-> 0]

\* is the value truthy: a number other than 0 and NaN
truthy(id) == id.defined /\ ~id.isNaN /\ id.value # 0

\* `${pullRequestId}`
idToString(id) ==
    IF ~id.defined THEN <<"u","n","d","e","f","i","n","e","d">>
    ELSE IF id.isNaN THEN <<"N","a","N">>
    ELSE numberToString(id.value)

digitValue(c) ==
    CASE c = "0" -> 0 [] c = "1" -> 1 [] c = "2" -> 2 [] c = "3" -> 3 [] c = "4" -> 4
      [] c = "5" -> 5 [] c = "6" -> 6 [] c = "7" -> 7 [] c = "8" -> 8 [] c = "9" -> 9

\* the value of the decimal digits s[first..last]
RECURSIVE digitsValue(_, _, _)
digitsValue(s, first, last) ==
    IF last < first THEN 0
    ELSE digitsValue(s, first, last - 1) * 10 + digitValue(s[last])

\* parseInt(text): white space is skipped, then an optional sign and the
\* longest run of decimal digits are read; NaN when there is no digit
parseInt(text) ==
    LET start == 1 + run(text, WhiteSpace, 1)
        signed == occursAt(text, <<"-">>, start) \/ occursAt(text, <<"+">>, start)
        first == IF signed THEN start + 1 ELSE start
        count == run(text, Digit, first)
        magnitude == digitsValue(text, first, first + count - 1)
    IN  IF count = 0 THEN NaN
        ELSE number(IF occursAt(text, <<"-">>, start) THEN 0 - magnitude ELSE magnitude)

\* reviewPullRequest(id), called by another module of the application
directRequest(id) == [via |-> "direct", present |-> FALSE, text |-> <<>>, id |-> id]

\* GET /api/review?prId=text
routeRequest(text) == [via |-> "route", present |-> TRUE, text |-> text, id |-> Undefined]

\* GET /api/review with no prId parameter: searchParams.get gives null
NoPrIdRequest == [via |-> "route", present |-> FALSE, text |-> <<>>, id |-> Undefined]

PrIdTexts == {<<"7">>, <<"9">>, <<"0">>, <<"a","b","c">>, <<"7","a","b","c">>, <<" ","7">>, <<"-","7">>, <<>>}

RouteRequests == {routeRequest(text) : text \in PrIdTexts} \cup {NoPrIdRequest}

DirectRequests == {directRequest(id) : id \in {number(7), number(9), number(0), Undefined}}

\* the identifier reviewPullRequest is called with: parseInt(prId) by the
\* handler (route.ts line 56)
pullRequestIdOf(req) == IF req.via = "route" THEN parseInt(req.text) ELSE req.id

\* Messages of the errors thrown
TokenError == <<"A","D","O"," ","P","e","r","s","o","n","a","l"," ","A","c","c","e","s","s"," ","T","o","k","e","n"," ","i","s"," ","n","o","t"," ","c","o","n","f","i","g","u","r","e","d">>
ProjectError == <<"A","D","O"," ","P","r","o","j","e","c","t"," ","i","s"," ","n","o","t"," ","c","o","n","f","i","g","u","r","e","d">>
UserIdError == <<"C","o","u","l","d"," ","n","o","t"," ","d","e","t","e","r","m","i","n","e"," ","a","u","t","h","e","n","t","i","c","a","t","e","d"," ","u","s","e","r"," ","I","D">>
RepositoryError == <<"C","a","n","n","o","t"," ","a","c","c","e","s","s"," ","r","e","p","o","s","i","t","o","r","y","."," ","C","h","e","c","k"," ","p","e","r","m","i","s","s","i","o","n","s"," ","a","n","d"," ","r","e","p","o","s","i","t","o","r","y"," ","I","D","."," ","D","e","t","a","i","l","s",":"," ">>
NoPullRequestError == <<"N","o"," ","p","u","l","l"," ","r","e","q","u","e","s","t"," ","f","o","u","n","d"," ","t","o"," ","r","e","v","i","e","w">>
notFoundError(id) == <<"P","u","l","l"," ","r","e","q","u","e","s","t"," ">> \o idToString(id) \o <<" ","n","o","t"," ","f","o","u","n","d">>
IterationError == <<"C","o","u","l","d"," ","n","o","t"," ","d","e","t","e","r","m","i","n","e"," ","t","h","e"," ","l","a","t","e","s","t"," ","i","t","e","r","a","t","i","o","n"," ","o","f"," ","t","h","e"," ","p","u","l","l"," ","r","e","q","u","e","s","t">>
\* the message of the Error a provider call rejects with
ProviderFailure == <<"r","e","q","u","e","s","t"," ","f","a","i","l","e","d">>

NoError == <<>>

\* the same with a call that is made a second time when it throws
await_retriesOnce(acc, name, fault) ==
    IF acc.error # NoError THEN acc
    ELSE [calls |-> IF Len(acc.calls) + 1 = fault
                    THEN acc.calls \o <<name, name>> ELSE Append(acc.calls, name),
          error |-> NoError]

\* The run of a function so far: the provider calls made and the Error
\* thrown, if any.  await of a provider call: it is the provider's call
\* number Len(calls) + 1, and throws when that is the fault of the provider.
await(acc, name, fault) ==
    IF acc.error # NoError THEN acc
    ELSE [calls |-> Append(acc.calls, name),
          error |-> IF Len(acc.calls) + 1 = fault THEN ProviderFailure ELSE NoError]

\* if (!holds) throw new Error(message)
check(acc, holds, message) ==
    IF acc.error # NoError \/ holds THEN acc ELSE [acc EXCEPT !.error = message]

\* getAdoClient (lines 400-431)
getAdoClient(acc, p) ==
    await(check(acc, p.hasToken, TokenError), "connect", p.fault)

\* lines 451-463: the error of getRepository is thrown again under another
\* message
getRepository(acc, p) ==
    LET after == await(acc, "getRepository", p.fault)
    IN  IF acc.error = NoError /\ after.error # NoError
        THEN [after EXCEPT !.error = RepositoryError \o after.error]
        ELSE after

\* the pull requests of the repository, the latest first, each with whether
\* the authenticated user created it
pullRequestsOf(p) ==
    (IF p.exists THEN <<[pr |-> p.pr, createdByUser |-> p.createdByUser]>> ELSE <<>>)
    \o (IF p.other.exists
        THEN <<[pr |-> p.other.pr, createdByUser |-> p.other.createdByUser]>> ELSE <<>>)

\* searchCriteria (lines 466-472): the criteria name the identifier when
\* specificPrId is truthy, and the pull requests created by the user
\* otherwise
meetsCriteria(candidate, specificPrId) ==
    IF truthy(specificPrId)
    THEN candidate.pr.pullRequestId = specificPrId.value
    ELSE candidate.createdByUser

\* getLatestPullRequests (lines 433-519): the run, whether a pull request
\* is returned (found) and the fields of it that the callers read
getLatestPullRequests(acc, p, specificPrId) ==
    LET client == getAdoClient(acc, p)
        gitApi == await(client, "getGitApi", p.fault)
        project == check(gitApi, p.hasProject, ProjectError)
        userId == check(project, p.hasUserId, UserIdError)
        repo == getRepository(userId, p)
        \* gitApi.getPullRequests(repositoryId, searchCriteria, project, 1, 0)
        listed == await(repo, "getPullRequests", p.fault)
        pullRequests == SelectSeq(pullRequestsOf(p),
                                  LAMBDA candidate : meetsCriteria(candidate, specificPrId))
        found == listed.error = NoError /\ pullRequests # <<>>
    IN  [calls |-> listed.calls,
         error |-> listed.error,
         found |-> found,
         pullRequestId |-> IF found THEN pullRequests[1].pr.pullRequestId ELSE 0,
         isAuthenticatedUserPR |-> found /\ pullRequests[1].createdByUser]

\* gitApi.getPullRequestById(pullRequestId, project): is there a pull
\* request of that identifier
hasPullRequest(p, id) ==
    /\ id.defined
    /\ ~id.isNaN
    /\ \E k \in 1..Len(pullRequestsOf(p)) : pullRequestsOf(p)[k].pr.pullRequestId = id.value

\* the same with if (!pullRequestId) in place of the comparison with
\* undefined: the identifier 0 is taken for no identifier
fetchChangeSet_latestWhenFalsy(acc, p, pullRequestId) ==
    LET prToReview == getLatestPullRequests(acc, p, Undefined)
        latest == IF truthy(pullRequestId) THEN acc
                  ELSE check([calls |-> prToReview.calls, error |-> prToReview.error],
                             prToReview.found, NoPullRequestError)
        id == IF truthy(pullRequestId) THEN pullRequestId
              ELSE number(prToReview.pullRequestId)
        client == getAdoClient(latest, p)
        gitApi == await(client, "getGitApi", p.fault)
        project == check(gitApi, p.hasProject, ProjectError)
        pr == check(await(project, "getPullRequestById", p.fault),
                    hasPullRequest(p, id), notFoundError(id))
        iterations == check(await(pr, "getPullRequestIterations", p.fault),
                            p.hasIterations, IterationError)
        changes == await(iterations, "getPullRequestIterationChanges", p.fault)
        commits == await(changes, "getPullRequestCommits", p.fault)
    IN  commits

\* reviewPullRequest, lines 521-569: the run up to the changes and the
\* commits of the pull request
fetchChangeSet(acc, p, pullRequestId) ==
    LET prToReview == getLatestPullRequests(acc, p, Undefined)
        latest == IF pullRequestId.defined THEN acc
                  ELSE check([calls |-> prToReview.calls, error |-> prToReview.error],
                             prToReview.found, NoPullRequestError)
        id == IF pullRequestId.defined THEN pullRequestId
              ELSE number(prToReview.pullRequestId)
        client == getAdoClient(latest, p)
        gitApi == await(client, "getGitApi", p.fault)
        project == check(gitApi, p.hasProject, ProjectError)
        pr == check(await(project, "getPullRequestById", p.fault),
                    hasPullRequest(p, id), notFoundError(id))
        iterations == check(await(pr, "getPullRequestIterations", p.fault),
                            p.hasIterations, IterationError)
        changes == await(iterations, "getPullRequestIterationChanges", p.fault)
        commits == await(changes, "getPullRequestCommits", p.fault)
    IN  commits


\* the pull request that reviewPullRequest reviews for the request: pr of
\* line 543, for the pullRequestId given or set at line 530
reviewedPullRequest(p, req) ==
    LET id == IF pullRequestIdOf(req).defined THEN pullRequestIdOf(req)
              ELSE number(getLatestPullRequests([calls |-> <<>>, error |-> NoError],
                                                p, Undefined).pullRequestId)
        all == pullRequestsOf(p)
    IN  all[CHOOSE k \in 1..Len(all) : all[k].pr.pullRequestId = id.value]
---------------------------------------------------------------------------
(* reviewPullRequest (lines 521-747)                                       *)

NoTestMessage == <<"N","o"," ","c","o","r","r","e","s","p","o","n","d","i","n","g"," ","t","e","s","t"," ","f","i","l","e"," ","f","o","u","n","d"," ","f","o","r"," ","t","h","i","s"," ","c","h","a","n","g","e","d"," ","f","i","l","e">>

\* the callback of changeEntries.some (lines 679-683)
isCorrespondingTest(entryOfSet, filePath) ==
    /\ entryOfSet.hasPath
    /\ \/ includes(entryOfSet.path, replace(filePath, <<"s","r","c","/">>, <<"t","e","s","t","/">>))
       \/ includes(entryOfSet.path, replace(filePath, <<".","t","s">>, <<".","t","e","s","t",".","t","s">>))
       \/ includes(entryOfSet.path, replace(filePath, <<".","t","s","x">>, <<".","t","e","s","t",".","t","s","x">>))

\* the test coverage check of one file (lines 677-692): the findings pushed
checkTestCoverage(filePath, changeEntries) ==
    IF /\ includes(filePath, <<"s","r","c","/">>)
       /\ ~includes(filePath, <<".","t","e","s","t",".">>)
       /\ ~includes(filePath, <<".","s","p","e","c",".">>)
    THEN LET hasCorrespondingTest ==
                 \E k \in 1..Len(changeEntries) :
                     isCorrespondingTest(changeEntries[k], filePath)
         IN  IF ~hasCorrespondingTest
             THEN <<[file |-> filePath, message |-> NoTestMessage, severity |-> "high"]>>
             ELSE <<>>
    ELSE <<>>

\* issues.map(issue => ({ file: filePath, ...issue }))
withFile(filePath, issues) ==
    [k \in 1..Len(issues) |->
        [file |-> filePath, message |-> issues[k].message, severity |-> issues[k].severity]]

\* The detectors are pure: what each returns for the contents of the model
ComplexityIssues == [name \in ContentNames |-> analyzeCodeComplexity(ContentText[name])]
StyleIssues == [name \in ContentNames |-> analyzeCodeStyle(ContentText[name])]
ReactIssues == [name \in ContentNames |-> analyzeReactCode(ContentText[name])]
DiffIssues == [old \in ContentNames, new \in ContentNames |->
    analyzeDiff(ContentText[old], ContentText[new])]
SecurityMessages == [name \in ContentNames |-> securityMessages(ContentText[name])]
PerformanceMessages == [name \in ContentNames |-> performanceMessages(ContentText[name])]
\* content.split('\n').length
LineCount == [name \in ContentNames |-> Len(split(ContentText[name]))]

\* checkSecurityIssues (lines 777-795): the Set after the call
checkSecurityIssues(content, filePath, issues) == addAll(issues, SecurityMessages[content])

\* checkPerformanceIssues (lines 797-811): the Set after the call
checkPerformanceIssues(content, filePath, issues) ==
    addAll(issues, PerformanceMessages[content])

\* the same with the fetch of the previous version outside its own try: when
\* it throws, the file fails
isAnalyzed_failsWithPrior(change) ==
    /\ change.hasPath
    /\ change.path # <<>>
    /\ change.newContent \in ContentNames
    /\ ~(change.hasPrevious /\ change.oldContent = "throws")

\* is the new content of the entry analysed: it has a path (line 588), the
\* fetch does not throw (line 694) and gives a content (line 622)
isAnalyzed(change) ==
    /\ change.hasPath
    /\ change.path # <<>>
    /\ change.newContent \in ContentNames

\* is oldContent set after lines 600-620
hasOldContent(change) ==
    change.hasPrevious /\ change.oldContent \in ContentNames

\* is oldContentStr, oldContent?.toString() || '' (line 624), not empty
hasOldContentStr(change) ==
    hasOldContent(change) /\ ContentText[change.oldContent] # <<>>

\* the same with the React checks made for every source file
fileSuggestions_reactForAllSources(change, changeEntries) ==
    LET filePath == change.path
        content == change.newContent
    IN  (IF endsWith(filePath, <<".","t","s">>) \/ endsWith(filePath, <<".","t","s","x">>)
         THEN withFile(filePath, ComplexityIssues[content])
              \o withFile(filePath, StyleIssues[content])
              \o withFile(filePath, ReactIssues[content])
              \o (IF hasOldContentStr(change)
                  THEN withFile(filePath, DiffIssues[change.oldContent, content])
                  ELSE <<>>)
         ELSE <<>>)
        \o checkTestCoverage(filePath, changeEntries)

\* the suggestions pushed for one analysed file, in the order of the pushes
\* (lines 634-692)
fileSuggestions(change, changeEntries) ==
    LET filePath == change.path
        content == change.newContent
    IN  (IF endsWith(filePath, <<".","t","s">>) \/ endsWith(filePath, <<".","t","s","x">>)
         THEN withFile(filePath, ComplexityIssues[content])
              \o withFile(filePath, StyleIssues[content])
              \o (IF endsWith(filePath, <<".","t","s","x">>)
                  THEN withFile(filePath, ReactIssues[content]) ELSE <<>>)
              \o (IF hasOldContentStr(change)
                  THEN withFile(filePath, DiffIssues[change.oldContent, content])
                  ELSE <<>>)
         ELSE <<>>)
        \o checkTestCoverage(filePath, changeEntries)

\* the same without Math.max(0, ...)
trackChanges_signedDelta(stats, change) ==
    LET newLines == LineCount[change.newContent]
        oldLines == LineCount[change.oldContent]
    IN  [stats EXCEPT !.additions = @ + newLines,
                      !.deletions = IF hasOldContent(change)
                                    THEN @ + (oldLines - newLines) ELSE @]

\* the statistics after one analysed file (lines 626-632)
trackChanges(stats, change) ==
    LET newLines == LineCount[change.newContent]
        oldLines == LineCount[change.oldContent]
        \* Math.max(0, oldLines.length - newLines.length)
        removed == IF oldLines - newLines > 0 THEN oldLines - newLines ELSE 0
    IN  [stats EXCEPT !.additions = @ + newLines,
                      !.deletions = IF hasOldContent(change) THEN @ + removed ELSE @]

\* the total without the deletions
withTotalChanges_additionsOnly(stats) ==
    [stats EXCEPT !.totalChanges = stats.additions]

\* statistics.totalChanges = statistics.additions + statistics.deletions  (line 701)
withTotalChanges(stats) ==
    [stats EXCEPT !.totalChanges = stats.additions + stats.deletions]

\* the count of the entries that have a path only
filesChangedOf_withPathOnly(changes) ==
    Cardinality({k \in 1..Len(changes.changeEntries) : changes.changeEntries[k].hasPath})

\* the count of the entries whose content is analysed only
filesChangedOf_analyzedOnly(changes) ==
    Cardinality({k \in 1..Len(changes.changeEntries) : isAnalyzed(changes.changeEntries[k])})

\* changes.changeEntries?.length || 0  (line 573)
filesChangedOf(changes) ==
    IF changes.hasEntries THEN Len(changes.changeEntries) ELSE 0

\* securityIssues.forEach / performanceIssues.forEach (lines 703-718)
changeSetWide(issues, severity) ==
    [k \in 1..Len(issues) |->
        [file |-> <<"m","u","l","t","i","p","l","e"," ","f","i","l","e","s">>, message |-> issues[k], severity |-> severity]]

\* the same with === in place of includes
testCoverageOf_exactMessage(list) ==
    ~\E k \in 1..Len(list) : list[k].message = <<"N","o"," ","c","o","r","r","e","s","p","o","n","d","i","n","g"," ","t","e","s","t">>

\* !suggestions.some(s => s.message.includes('No corresponding test'))  (line 739)
testCoverageOf(list) ==
    ~\E k \in 1..Len(list) : includes(list[k].message, <<"N","o"," ","c","o","r","r","e","s","p","o","n","d","i","n","g"," ","t","e","s","t">>)

NoReport ==
    [summary |-> generatePRSummary(NoRefPullRequest,
                    [filesChanged |-> 0, additions |-> 0, deletions |-> 0], <<>>),
     suggestions |-> <<>>,
     statistics |-> [filesChanged |-> 0, additions |-> 0, deletions |-> 0, totalChanges |-> 0],
     bestPractices |-> [commitMessages |-> FALSE, branchNaming |-> FALSE,
                        testCoverage |-> FALSE, documentationUpdated |-> FALSE]]

\* no response yet; sent counts the responses the handler has returned
NoResponse == [status |-> 0, error |-> NoError, review |-> NoReport, sent |-> 0]

\* return NextResponse.json({ error: message }, { status })
errorResponse(status, message) ==
    [status |-> status, error |-> message, review |-> NoReport, sent |-> response.sent + 1]

\* no call of findMovedBlocks
NoDiff == [oldLines |-> <<>>, newLines |-> <<>>, movedBlocks |-> 0, counted |-> <<>>,
           issues |-> <<>>]

\* no second call
NoPeer == [id |-> 0]

\* the state in which reviewPullRequest is called on what the provider holds
InitOver(worlds) ==
    /\ provider \in worlds
    /\ request = directRequest(number(7))
    /\ pc = "start"
    /\ calls = <<>>
    /\ error = NoError
    /\ response = NoResponse
    /\ diff = NoDiff
    /\ idx = 0
    /\ statistics = [filesChanged |-> 0, additions |-> 0, deletions |-> 0, totalChanges |-> 0]
    /\ suggestions = <<>>
    /\ securityIssues = <<>>
    /\ performanceIssues = <<>>
    /\ report = NoReport
    /\ peer = NoPeer

\* lines 521-581: the pull request, its iterations, changes and commits are
\* fetched and the accumulators initialised
FetchChangeSet ==
    /\ pc = "start"
    /\ LET fetched == fetchChangeSet([calls |-> calls, error |-> NoError], provider,
                                     pullRequestIdOf(request))
       IN  /\ fetched.error = NoError
           /\ calls' = fetched.calls
    /\ pc' = "files"
    /\ idx' = 1
    /\ statistics' = [filesChanged |-> filesChangedOf(provider.changes),
                      additions |-> 0, deletions |-> 0, totalChanges |-> 0]
    /\ suggestions' = <<>>
    /\ securityIssues' = <<>>
    /\ performanceIssues' = <<>>
    /\ UNCHANGED <<peer, provider, request, error, response, diff, report>>

\* the same with a catch that returns a Report with nothing in it and does
\* not throw the error again
FetchFails_returnsEmptyReport ==
    /\ pc = "start"
    /\ LET fetched == fetchChangeSet([calls |-> calls, error |-> NoError], provider,
                                     pullRequestIdOf(request))
       IN  /\ fetched.error # NoError
           /\ calls' = fetched.calls
    /\ pc' = "done"
    /\ UNCHANGED <<peer, provider, request, error, response, diff, idx, statistics, suggestions,
                   securityIssues, performanceIssues, report>>

\* lines 521-569, 743-746: one of the fetches throws, or finds nothing; the
\* error is logged and thrown again, and no report is returned
FetchFails ==
    /\ pc = "start"
    /\ LET fetched == fetchChangeSet([calls |-> calls, error |-> NoError], provider,
                                     pullRequestIdOf(request))
       IN  /\ fetched.error # NoError
           /\ calls' = fetched.calls
           /\ error' = fetched.error
    /\ pc' = "failed"
    /\ UNCHANGED <<peer, provider, request, response, diff, idx, statistics, suggestions,
                   securityIssues, performanceIssues, report>>

\* lines 622-693: the statistics, the detectors and the test coverage check
\* on the content of one change entry
analyzeContent(change, changeEntries) ==
    /\ statistics' = trackChanges(statistics, change)
    /\ suggestions' = suggestions \o fileSuggestions(change, changeEntries)
    /\ securityIssues' =
            IF endsWith(change.path, <<".","t","s">>) \/ endsWith(change.path, <<".","t","s","x">>)
            THEN checkSecurityIssues(change.newContent, change.path, securityIssues)
            ELSE securityIssues
    /\ performanceIssues' =
            IF endsWith(change.path, <<".","t","s">>) \/ endsWith(change.path, <<".","t","s","x">>)
            THEN checkPerformanceIssues(change.newContent, change.path, performanceIssues)
            ELSE performanceIssues

\* the same with the test coverage check made for a file without content too
analyzeChange_testCoverageOfAbsent(change, changeEntries) ==
    IF isAnalyzed(change)
    THEN analyzeContent(change, changeEntries)
    ELSE /\ suggestions' =
                IF change.hasPath /\ change.newContent = "absent"
                THEN suggestions \o checkTestCoverage(change.path, changeEntries)
                ELSE suggestions
         /\ UNCHANGED <<statistics, securityIssues, performanceIssues>>

\* the same with one try around the whole loop: the files after a failing
\* one are not analysed
analyzeChange_stopsAfterFailure(change, changeEntries) ==
    IF /\ isAnalyzed(change)
       /\ \A j \in 1..(idx - 1) :
            ~(changeEntries[j].hasPath /\ changeEntries[j].newContent = "throws")
    THEN analyzeContent(change, changeEntries)
    ELSE UNCHANGED <<statistics, suggestions, securityIssues, performanceIssues>>

\* lines 586-697: the body of the loop for one change entry
analyzeChange(change, changeEntries) ==
    IF isAnalyzed(change)
    THEN analyzeContent(change, changeEntries)
    ELSE UNCHANGED <<statistics, suggestions, securityIssues, performanceIssues>>

\* lines 585-698: one turn of the loop over changes.changeEntries
AnalyzeFile ==
    /\ pc = "files"
    /\ provider.changes.hasEntries
    /\ idx <= Len(provider.changes.changeEntries)
    /\ analyzeChange(provider.changes.changeEntries[idx], provider.changes.changeEntries)
    /\ idx' = idx + 1
    /\ UNCHANGED <<peer, provider, request, pc, calls, error, response, diff, report>>

\* lines 701-742: the totals, the change-set-wide findings, the policy checks,
\* the sort and the Report
BuildReport ==
    /\ pc = "files"
    /\ ~provider.changes.hasEntries \/ idx > Len(provider.changes.changeEntries)
    /\ LET pr == reviewedPullRequest(provider, request).pr
           stats == withTotalChanges(statistics)
           all == suggestions
                    \o changeSetWide(securityIssues, "high")
                    \o changeSetWide(performanceIssues, "medium")
           hasGoodCommitMessages == analyzeCommitMessages(provider.commits)
           branchNamingAnalysis == analyzeBranchNaming(sourceBranchOf(pr))
           docAnalysis == analyzeDocumentation(
                IF provider.changes.hasEntries THEN provider.changes.changeEntries ELSE <<>>)
           sorted == sortBySeverity(all)
       IN  /\ statistics' = stats
           /\ suggestions' = all
           /\ report' =
                [summary |-> generatePRSummary(pr, stats, all),
                 suggestions |-> sorted,
                 statistics |-> stats,
                 bestPractices |->
                    [commitMessages |-> hasGoodCommitMessages,
                     branchNaming |-> branchNamingAnalysis.isValid,
                     testCoverage |-> testCoverageOf(sorted),
                     documentationUpdated |-> docAnalysis.hasUpdates]]
    /\ pc' = "done"
    /\ UNCHANGED <<peer, provider, request, calls, error, response, diff, idx,
                   securityIssues, performanceIssues>>

Init == InitOver(Worlds)

Next == FetchChangeSet \/ FetchFails \/ AnalyzeFile \/ BuildReport

\* a review of every change-set of the model
Spec == Init /\ [][Next]_vars

InitPolicy == InitOver(PolicyWorlds)

\* a review under every pull request and commit list of the model
SpecPolicy == InitPolicy /\ [][Next]_vars


---------------------------------------------------------------------------
(* The handler of /api/review (route.ts lines 33-66)                       *)

\* the same without the guard on the creator of the pull request
GET_withoutOwnershipGuard ==
    /\ pc = "request"
    /\ IF ~request.present \/ request.text = <<>>
       THEN /\ response' = errorResponse(400, <<"P","R"," ","I","D"," ","i","s"," ","r","e","q","u","i","r","e","d">>)
            /\ pc' = "responded"
            /\ UNCHANGED calls
       ELSE LET prDetails == getLatestPullRequests([calls |-> calls, error |-> NoError],
                                                  provider, parseInt(request.text))
            IN  /\ calls' = prDetails.calls
                /\ IF prDetails.error # NoError
                   THEN /\ response' = errorResponse(500, prDetails.error)
                        /\ pc' = "responded"
                   ELSE IF ~prDetails.found
                   THEN /\ response' = errorResponse(404, <<"P","u","l","l"," ","r","e","q","u","e","s","t"," ","n","o","t"," ","f","o","u","n","d">>)
                        /\ pc' = "responded"
                   ELSE /\ pc' = "start"
                        /\ UNCHANGED response
    /\ UNCHANGED <<peer, provider, request, error, diff, idx, statistics, suggestions,
                   securityIssues, performanceIssues, report>>

\* lines 34-56: the guards of the handler, up to the call of
\* reviewPullRequest
GET ==
    /\ pc = "request"
    /\ IF ~request.present \/ request.text = <<>>
       THEN /\ response' = errorResponse(400, <<"P","R"," ","I","D"," ","i","s"," ","r","e","q","u","i","r","e","d">>)
            /\ pc' = "responded"
            /\ UNCHANGED calls
       ELSE LET prDetails == getLatestPullRequests([calls |-> calls, error |-> NoError],
                                                  provider, parseInt(request.text))
            IN  /\ calls' = prDetails.calls
                /\ IF prDetails.error # NoError
                   THEN /\ response' = errorResponse(500, prDetails.error)
                        /\ pc' = "responded"
                   ELSE IF ~prDetails.found
                   THEN /\ response' = errorResponse(404, <<"P","u","l","l"," ","r","e","q","u","e","s","t"," ","n","o","t"," ","f","o","u","n","d">>)
                        /\ pc' = "responded"
                   ELSE IF ~prDetails.isAuthenticatedUserPR
                   THEN /\ response' =
                                errorResponse(403, <<"Y","o","u"," ","c","a","n"," ","o","n","l","y"," ","r","e","v","i","e","w"," ","y","o","u","r"," ","o","w","n"," ","p","u","l","l"," ","r","e","q","u","e","s","t","s">>)
                        /\ pc' = "responded"
                   ELSE /\ pc' = "start"
                        /\ UNCHANGED response
    /\ UNCHANGED <<peer, provider, request, error, diff, idx, statistics, suggestions,
                   securityIssues, performanceIssues, report>>

\* lines 56-65: reviewPullRequest has returned or thrown, and the handler
\* responds
GETResponds ==
    /\ pc \in {"done", "failed"}
    /\ request.via = "route"
    /\ response' = IF pc = "done"
                   THEN [status |-> 200, error |-> NoError, review |-> report,
                         sent |-> response.sent + 1]
                   ELSE errorResponse(500, error)
    /\ pc' = "responded"
    /\ UNCHANGED <<peer, provider, request, calls, error, diff, idx, statistics, suggestions,
                   securityIssues, performanceIssues, report>>

InitRoute ==
    /\ provider \in RouteWorlds
    /\ request \in RouteRequests \cup DirectRequests
    /\ pc = IF request.via = "route" THEN "request" ELSE "start"
    /\ calls = <<>>
    /\ error = NoError
    /\ response = NoResponse
    /\ diff = NoDiff
    /\ idx = 0
    /\ statistics = [filesChanged |-> 0, additions |-> 0, deletions |-> 0, totalChanges |-> 0]
    /\ suggestions = <<>>
    /\ securityIssues = <<>>
    /\ performanceIssues = <<>>
    /\ report = NoReport
    /\ peer = NoPeer

NextRoute ==
    GET \/ FetchChangeSet \/ FetchFails \/ AnalyzeFile \/ BuildReport \/ GETResponds

\* the requests to /api/review and the calls of reviewPullRequest, under every
\* defect and fault of the provider
SpecRoute == InitRoute /\ [][NextRoute]_vars

---------------------------------------------------------------------------
(* findMovedBlocks on its own (lines 885-900)                              *)

\* count lines that differ from one another: prefix1, prefix2, ...
numbered(prefix, count) == [k \in 1..count |-> prefix \o numberToString(k)]

\* lines with the block of minBlockSize lines that starts at the line from
\* (1-based) taken out and put back so that it starts at the line to
relocate(lines, from, to) ==
    LET block == SubSeq(lines, from, from + minBlockSize - 1)
        rest == SubSeq(lines, 1, from - 1) \o SubSeq(lines, from + minBlockSize, Len(lines))
    IN  SubSeq(rest, 1, to - 1) \o block \o SubSeq(rest, to, Len(rest))

\* the texts that lines start with
LinePrefixes == {<<>>, <<"x">>, <<"l","e","t"," ","v">>}

OldContents == {numbered(prefix, count) : prefix \in LinePrefixes, count \in {6, 7, 12, 20, 26}}

\* the pairs of old and new lines: nothing moved, or, in the contents of up to
\* 20 lines, one block moved (by more than minBlockSize lines in those of 20)
DiffInputs ==
    {[oldLines |-> old, newLines |-> old, movedBlocks |-> 0,
          counted |-> <<>>, issues |-> <<>>] : old \in OldContents}
    \cup UNION {
        {[oldLines |-> old, newLines |-> relocate(old, move[1], move[2]), movedBlocks |-> 0,
          counted |-> <<>>, issues |-> <<>>] :
            move \in {m \in (1..(Len(old) - minBlockSize + 1))
                                \X (1..(Len(old) - minBlockSize + 1)) :
                        /\ m[1] # m[2]
                        /\ Len(old) <= 20
                        /\ Len(old) < 20 \/ m[1] - m[2] > minBlockSize
                                         \/ m[2] - m[1] > minBlockSize}} :
        old \in OldContents}

FindMovedBlocks ==
    /\ pc = "diff"
    /\ diff' = [diff EXCEPT !.movedBlocks = findMovedBlocks(diff.oldLines, diff.newLines),
                            !.counted = countedFrom(diff.oldLines, diff.newLines, 0),
                            !.issues = analyzeDiff(join(diff.oldLines), join(diff.newLines))]
    /\ pc' = "diffed"
    /\ UNCHANGED <<peer, provider, request, calls, error, response, idx, statistics,
                   suggestions, securityIssues, performanceIssues, report>>

InitDiff ==
    /\ provider = world(pullRequest(RefFeature), changesOf(<<>>), <<>>)
    /\ request = directRequest(number(7))
    /\ pc = "diff"
    /\ calls = <<>>
    /\ error = NoError
    /\ response = NoResponse
    /\ diff \in DiffInputs
    /\ idx = 0
    /\ statistics = [filesChanged |-> 0, additions |-> 0, deletions |-> 0, totalChanges |-> 0]
    /\ suggestions = <<>>
    /\ securityIssues = <<>>
    /\ performanceIssues = <<>>
    /\ report = NoReport
    /\ peer = NoPeer

\* findMovedBlocks applied to every pair of DiffInputs
SpecDiff == InitDiff /\ [][FindMovedBlocks]_vars
---------------------------------------------------------------------------
(* Properties of the returned Report                                       *)

\* a Report has been returned
Returned == pc = "done"

\* the change entries of the change-set under review
EntriesOfRun == provider.changes.changeEntries

\* C1: in every returned Report, statistics.totalChanges equals
\* statistics.additions + statistics.deletions, whatever the mix of files
\* with content, without content or failing.
C1_TotalChangesIsSum ==
    Returned =>
        report.statistics.totalChanges =
            report.statistics.additions + report.statistics.deletions

\* C1 witness: a Report with additions and deletions, one file of the
\* change-set failing and one without content.
C1_Witness ==
    /\ Returned
    /\ report.statistics.additions > 0
    /\ report.statistics.deletions > 0
    /\ \E k \in 1..Len(EntriesOfRun) : EntriesOfRun[k].newContent \in {"throws", "absent"}

\* C2: the suggestions of every returned Report are in non-increasing order of
\* severity weight (high 3, medium 2, low 1), the change-set-wide findings
\* appended after the file loop included.
C2_SortedBySeverity ==
    Returned =>
        \A i, j \in 1..Len(report.suggestions) :
            i < j =>
                severityScore(report.suggestions[i].severity)
                    >= severityScore(report.suggestions[j].severity)

\* C2 witness: a Report for which a medium finding of a file was pushed before
\* a high change-set-wide finding.
C2_Witness ==
    /\ Returned
    /\ \E i, j \in 1..Len(suggestions) :
        /\ i < j
        /\ suggestions[i].severity = "medium"
        /\ suggestions[j].severity = "high"
        /\ suggestions[j].file = <<"m","u","l","t","i","p","l","e"," ","f","i","l","e","s">>

\* the findings of one severity, in their order in a list
ofSeverity(list, severity) == SelectSeq(list, LAMBDA s : s.severity = severity)

\* the example of the specification: low, high, medium, high
SortExample ==
    <<[file |-> <<"a">>, message |-> <<"1">>, severity |-> "low"],
      [file |-> <<"a">>, message |-> <<"2">>, severity |-> "high"],
      [file |-> <<"a">>, message |-> <<"3">>, severity |-> "medium"],
      [file |-> <<"a">>, message |-> <<"4">>, severity |-> "high"]>>

\* C3: the sort is stable: the findings of one severity are in the returned
\* suggestions in the order in which they were pushed; [low, high, medium,
\* high] gives [high, high, medium, low] with the first high first.
C3_SortIsStable ==
    /\ Returned =>
        \A severity \in {"high", "medium", "low"} :
            ofSeverity(report.suggestions, severity) = ofSeverity(suggestions, severity)
    /\ sortBySeverity(SortExample) =
        <<SortExample[2], SortExample[4], SortExample[3], SortExample[1]>>

\* C3 witness: a Report for which a medium, then a high, then another medium
\* finding were pushed.
C3_Witness ==
    /\ Returned
    /\ \E i, j, k \in 1..Len(suggestions) :
        /\ i < j /\ j < k
        /\ suggestions[i].severity = "medium"
        /\ suggestions[j].severity = "high"
        /\ suggestions[k].severity = "medium"
        /\ suggestions[i] # suggestions[k]

\* the entries whose content the run analyses as source code (.ts or .tsx)
AnalyzedSources ==
    {k \in 1..Len(EntriesOfRun) :
        /\ isAnalyzed(EntriesOfRun[k])
        /\ \/ endsWith(EntriesOfRun[k].path, <<".","t","s">>)
           \/ endsWith(EntriesOfRun[k].path, <<".","t","s","x">>)}

\* the names of the sensitive environment variables a text refers to: each
\* identifier that follows process.env. and contains KEY, SECRET or PASSWORD
SensitiveNames(text) ==
    {name \in {SubSeq(text, i + 12, i + 11 + run(text, WordChar, i + 12)) :
                    i \in occurrences(text, <<"p","r","o","c","e","s","s",".","e","n","v",".">>, 1)} :
        \/ includes(name, <<"K","E","Y">>)
        \/ includes(name, <<"S","E","C","R","E","T">>)
        \/ includes(name, <<"P","A","S","S","W","O","R","D">>)}

\* the change-set-wide findings of the Report
WideFindings ==
    {k \in 1..Len(report.suggestions) : report.suggestions[k].file = <<"m","u","l","t","i","p","l","e"," ","f","i","l","e","s">>}

\* the change-set-wide findings about a sensitive environment variable
SensitiveFindings ==
    {k \in WideFindings :
        startsWith(report.suggestions[k].message, <<"S","e","n","s","i","t","i","v","e"," ","e","n","v","i","r","o","n","m","e","n","t"," ","v","a","r","i","a","b","l","e"," ">>)}

\* C4: change-set-wide findings are deduplicated by message text: no two of
\* them have the same message, however many files trigger it, and the distinct
\* sensitive variable names of the analysed files yield one finding each.
C4_OneFindingPerMessageAndName ==
    Returned =>
        /\ \A i, j \in WideFindings :
            report.suggestions[i].message = report.suggestions[j].message => i = j
        /\ Cardinality(SensitiveFindings) =
            Cardinality(UNION {SensitiveNames(ContentText[EntriesOfRun[k].newContent]) :
                                k \in AnalyzedSources})

\* the place of the last "." of a path, 0 when it has none
lastDot(path) ==
    IF \E i \in 1..Len(path) : path[i] = "."
    THEN CHOOSE i \in 1..Len(path) :
            path[i] = "." /\ \A j \in (i + 1)..Len(path) : path[j] # "."
    ELSE 0

\* the corresponding test paths of a source path: the source segment replaced
\* by the test segment, or .test inserted before the extension
TestPathsOf(path) ==
    {replace(path, <<"s","r","c","/">>, <<"t","e","s","t","/">>)}
    \cup (IF lastDot(path) = 0 THEN {}
          ELSE {SubSeq(path, 1, lastDot(path) - 1) \o <<".","t","e","s","t">>
                    \o substring(path, lastDot(path))})

\* the entries that are source files with content and no corresponding test
\* among the other entries
UntestedSources ==
    {k \in 1..Len(EntriesOfRun) :
        /\ isAnalyzed(EntriesOfRun[k])
        /\ includes(EntriesOfRun[k].path, <<"s","r","c","/">>)
        /\ ~includes(EntriesOfRun[k].path, <<".","t","e","s","t",".">>)
        /\ ~includes(EntriesOfRun[k].path, <<".","s","p","e","c",".">>)
        /\ ~\E j \in 1..Len(EntriesOfRun) :
                /\ j # k
                /\ EntriesOfRun[j].hasPath
                /\ \E t \in TestPathsOf(EntriesOfRun[k].path) :
                        includes(EntriesOfRun[j].path, t)}

\* has the Report a high finding for that file that no test corresponds to it
hasNoTestFinding(path) ==
    \E k \in 1..Len(report.suggestions) :
        /\ report.suggestions[k].file = path
        /\ report.suggestions[k].severity = "high"
        /\ includes(report.suggestions[k].message, <<"N","o"," ","c","o","r","r","e","s","p","o","n","d","i","n","g"," ","t","e","s","t"," ","f","i","l","e"," ","f","o","u","n","d">>)

\* C5: every changed source file (under src/, not a test or spec file, content
\* available) with no corresponding test path among the other entries gets a
\* high 'No corresponding test file found' finding, .ts and .tsx files alike.
C5_UntestedSourceIsReported ==
    Returned => \A k \in UntestedSources : hasNoTestFinding(EntriesOfRun[k].path)

\* C6: bestPractices.testCoverage is false exactly when the returned
\* suggestions hold a finding whose message contains the marker
\* 'No corresponding test'.
C6_TestCoverageMatchesFindings ==
    Returned =>
        (report.bestPractices.testCoverage = FALSE
            <=> \E k \in 1..Len(report.suggestions) :
                    includes(report.suggestions[k].message, <<"N","o"," ","c","o","r","r","e","s","p","o","n","d","i","n","g"," ","t","e","s","t">>))

\* C6 witness: a Report with several findings, one of them the missing-test
\* finding, and testCoverage false.
C6_Witness ==
    /\ Returned
    /\ report.bestPractices.testCoverage = FALSE
    /\ Len(report.suggestions) >= 3
    /\ \E k \in 1..Len(report.suggestions) : report.suggestions[k].message = NoTestMessage

\* a message contains 'wip' in some letter case
containsWipAnyCase(message) ==
    \E i \in 1..(Len(message) - 2) :
        /\ message[i] \in {"w", "W"}
        /\ message[i + 1] \in {"i", "I"}
        /\ message[i + 2] \in {"p", "P"}

\* A message starts with a conventional-commit prefix: a type, an optional
\* parenthesized scope, then ': ' and one further character.  excluded are
\* the characters that count neither as a scope character nor as the further
\* character.
startsWithConventionalPrefix(message, excluded) ==
    \E type \in CommitTypes : \E n \in 0..Len(message) :
        LET scope == SubSeq(message, Len(type) + 1, Len(type) + n)
            rest == substring(message, Len(type) + n + 1)
        IN  /\ startsWith(message, type)
            /\ Len(type) + n <= Len(message)
            /\ \/ n = 0
               \/ /\ n >= 3
                  /\ Head(scope) = "("
                  /\ scope[n] = ")"
                  /\ \A i \in 2..(n - 1) : scope[i] \notin excluded
            /\ Len(rest) >= 3
            /\ rest[1] = ":"
            /\ rest[2] = " "
            /\ rest[3] \notin excluded

\* the commit messages of the run; a missing message is the empty text
messageOf(c) == IF c.hasComment THEN c.comment ELSE <<>>

\* every commit passes, the further character and the scope characters being
\* any character outside excluded
everyCommitPasses(excluded) ==
    \A k \in 1..Len(provider.commits) :
        LET message == messageOf(provider.commits[k])
        IN  /\ startsWithConventionalPrefix(message, excluded)
            /\ Len(message) >= 10
            /\ ~containsWipAnyCase(message)

\* C7 as stated: bestPractices.commitMessages is true exactly when every
\* commit message starts with a conventional-commit prefix followed by ': '
\* and at least one further character, is at least 10 characters long and does
\* not contain 'wip' in any letter case.
C7_AsStated ==
    Returned => (report.bestPractices.commitMessages <=> everyCommitPasses({}))

\* C7 as amended: the same, where the further character after ': ' and the
\* characters of the scope are characters other than line terminators.
C7_CommitMessages ==
    Returned => (report.bestPractices.commitMessages <=> everyCommitPasses(LineTerminator))

\* C7 witness: a Report for two commits, the first passing and the second
\* containing WIP in capitals, with commitMessages false.
C7_Witness ==
    /\ Returned
    /\ Len(provider.commits) = 2
    /\ provider.commits[1] = commit(CommitGood)
    /\ provider.commits[2] = commit(CommitWip)
    /\ report.bestPractices.commitMessages = FALSE

\* a branch name is type/description: a type of BranchTypes, "/", and a
\* description of one or more lowercase letters, digits and hyphens
isTypeSlashDescription(name) ==
    \E type \in BranchTypes : \E n \in 1..Len(name) :
        /\ Len(name) = Len(type) + 1 + n
        /\ SubSeq(name, 1, Len(type)) = type
        /\ name[Len(type) + 1] = "/"
        /\ \A i \in (Len(type) + 2)..Len(name) :
                name[i] \in LowerCase \cup Digit \cup {"-"}

\* a ref name without a leading refs/heads/
withoutLeadingNamespace(ref) ==
    IF startsWith(ref, <<"r","e","f","s","/","h","e","a","d","s","/">>) THEN substring(ref, Len(<<"r","e","f","s","/","h","e","a","d","s","/">>) + 1) ELSE ref

\* C8: bestPractices.branchNaming is true exactly when the source branch name,
\* a leading 'refs/heads/' removed, is type/description; a missing source ref
\* gives false; an occurrence of 'refs/heads/' in the middle of the name is
\* never removed.
C8_BranchNaming ==
    Returned =>
        (report.bestPractices.branchNaming <=>
            /\ provider.pr.hasSourceRef
            /\ isTypeSlashDescription(withoutLeadingNamespace(provider.pr.sourceRefName)))

\* a path names documentation: it contains README or docs/, or ends with .md
isDocumentationPath(path) ==
    \/ \E i \in 1..(Len(path) - 5) : SubSeq(path, i, i + 5) = <<"R","E","A","D","M","E">>
    \/ \E i \in 1..(Len(path) - 4) : SubSeq(path, i, i + 4) = <<"d","o","c","s","/">>
    \/ Len(path) >= 3 /\ SubSeq(path, Len(path) - 2, Len(path)) = <<".","m","d">>

\* C9: bestPractices.documentationUpdated is true exactly when an entry of the
\* change-set has a path that contains 'README' or 'docs/' or ends with
\* '.md'; entries without a path do not count, an empty change-set gives
\* false.
C9_DocumentationUpdated ==
    Returned =>
        (report.bestPractices.documentationUpdated <=>
            \E k \in 1..Len(EntriesOfRun) :
                EntriesOfRun[k].hasPath /\ isDocumentationPath(EntriesOfRun[k].path))

\* C9 witness: a Report for an entry without a path followed by a .md file,
\* with documentationUpdated true.
C9_Witness ==
    /\ Returned
    /\ Len(EntriesOfRun) = 2
    /\ EntriesOfRun[1] = NoPathEntry
    /\ EntriesOfRun[2].path = PathMd
    /\ report.bestPractices.documentationUpdated

\* C10: statistics.filesChanged is the number of entries of the change-set,
\* entries without a path, without content or failing included.
C10_FilesChangedCountsAllEntries ==
    Returned => report.statistics.filesChanged = Len(EntriesOfRun)

\* C10 witness: a Report for an entry without a path and an entry whose
\* content fetch fails, with filesChanged 2.
C10_Witness ==
    /\ Returned
    /\ Len(EntriesOfRun) = 2
    /\ EntriesOfRun[1] = NoPathEntry
    /\ EntriesOfRun[2].newContent = "throws"
    /\ report.statistics.filesChanged = 2

---------------------------------------------------------------------------
(* Statistics and failures of the file loop                                *)

\* the new content of the entry was fetched: the entry has a path and
\* getItemContent gave a content for it
contentAvailable(e) == e.hasPath /\ e.newContent \notin {"absent", "throws"}

\* the previous version of the entry was fetched
priorAvailable(e) == e.hasPrevious /\ e.oldContent \notin {"absent", "throws"}

\* the number of lines of the content of that name: its line feeds, and one
lineCountOf(name) ==
    Cardinality({i \in 1..Len(ContentText[name]) : ContentText[name][i] = "\n"}) + 1

\* the lines the entry adds and removes, as the statistics are specified
additionsOf(e) == IF contentAvailable(e) THEN lineCountOf(e.newContent) ELSE 0
deletionsOf(e) ==
    IF contentAvailable(e) /\ priorAvailable(e)
          /\ lineCountOf(e.oldContent) > lineCountOf(e.newContent)
    THEN lineCountOf(e.oldContent) - lineCountOf(e.newContent)
    ELSE 0

RECURSIVE sumOfAdditions(_, _)
sumOfAdditions(entries, k) ==
    IF k = 0 THEN 0 ELSE sumOfAdditions(entries, k - 1) + additionsOf(entries[k])

RECURSIVE sumOfDeletions(_, _)
sumOfDeletions(entries, k) ==
    IF k = 0 THEN 0 ELSE sumOfDeletions(entries, k - 1) + deletionsOf(entries[k])

\* the file loop is over
AfterLoop ==
    \/ pc = "done"
    \/ pc = "files" /\ (~provider.changes.hasEntries \/ idx > Len(EntriesOfRun))

\* C11 as stated: statistics.filesChanged is the count of the entries whose
\* content was analysed; entries with absent new content or failed analysis
\* are not counted.
C11_AsStated ==
    Returned =>
        report.statistics.filesChanged =
            Cardinality({k \in 1..Len(EntriesOfRun) : contentAvailable(EntriesOfRun[k])})

\* C11 amended: statistics.filesChanged exceeds the count of the entries whose
\* content was analysed by the count of the entries that were not analysed:
\* the entries without a path, without new content or whose fetch failed are
\* counted too.
C11_FilesChangedCountsUnanalyzed ==
    Returned =>
        report.statistics.filesChanged
            - Cardinality({k \in 1..Len(EntriesOfRun) : contentAvailable(EntriesOfRun[k])})
          = Cardinality({k \in 1..Len(EntriesOfRun) : ~EntriesOfRun[k].hasPath})
            + Cardinality({k \in 1..Len(EntriesOfRun) :
                    EntriesOfRun[k].hasPath /\ EntriesOfRun[k].newContent = "absent"})
            + Cardinality({k \in 1..Len(EntriesOfRun) :
                    EntriesOfRun[k].hasPath /\ EntriesOfRun[k].newContent = "throws"})

\* C11 witness: a Report for an entry with no path and an entry with no new
\* content, both counted.
C11_Witness ==
    /\ Returned
    /\ Len(EntriesOfRun) = 2
    /\ ~EntriesOfRun[1].hasPath
    /\ EntriesOfRun[2].hasPath /\ EntriesOfRun[2].newContent = "absent"
    /\ report.statistics.filesChanged = 2

\* C12: after the file loop, statistics.additions is the sum of the line
\* counts of the new contents that were fetched, and statistics.deletions the
\* sum, over the same files, of max(0, old lines - new lines) where the
\* previous version was fetched and of 0 where it was not; deletions is never
\* negative.
C12_AdditionsAndDeletions ==
    AfterLoop =>
        /\ statistics.additions = sumOfAdditions(EntriesOfRun, Len(EntriesOfRun))
        /\ statistics.deletions = sumOfDeletions(EntriesOfRun, Len(EntriesOfRun))
        /\ statistics.deletions >= 0

\* C12 witness: the loop is over a file whose previous version is longer than
\* the new one and a file whose previous version is shorter.
C12_Witness ==
    /\ AfterLoop
    /\ Len(EntriesOfRun) = 2
    /\ \A k \in 1..2 : contentAvailable(EntriesOfRun[k]) /\ priorAvailable(EntriesOfRun[k])
    /\ lineCountOf(EntriesOfRun[1].oldContent) > lineCountOf(EntriesOfRun[1].newContent)
    /\ lineCountOf(EntriesOfRun[2].oldContent) < lineCountOf(EntriesOfRun[2].newContent)
    /\ statistics.deletions > 0

\* C13: a change-set in which the new content of every file is absent yields
\* additions 0, deletions 0, totalChanges 0 and no suggestion.
C13_DeletionOnly ==
    (Returned /\ \A k \in 1..Len(EntriesOfRun) : EntriesOfRun[k].newContent = "absent") =>
        /\ report.statistics.additions = 0
        /\ report.statistics.deletions = 0
        /\ report.statistics.totalChanges = 0
        /\ report.suggestions = <<>>

\* C13 witness: a Report for two source files under src/ without new content.
C13_Witness ==
    /\ Returned
    /\ Len(EntriesOfRun) = 2
    /\ \A k \in 1..2 :
        /\ EntriesOfRun[k].hasPath
        /\ EntriesOfRun[k].newContent = "absent"
        /\ includes(EntriesOfRun[k].path, <<"s","r","c","/">>)
    /\ report.statistics.filesChanged = 2

\* the message names a file that is too large
isTooLargeMessage(message) == includes(toLowerCase(message), <<"t","o","o"," ","l","a","r","g","e">>)

\* the message names a missing test file
isNoTestMessage(message) == includes(toLowerCase(message), <<"n","o"," ","c","o","r","r","e","s","p","o","n","d","i","n","g"," ","t","e","s","t"," ","f","i","l","e">>)

\* C14: a change-set of one added file of 301 lines under the source tree, with
\* no test file, yields a medium "file too large" finding and a high "no
\* corresponding test file" finding, testCoverage false and filesChanged 1.
C14_LargeUntestedFile ==
    (/\ Returned
     /\ Len(EntriesOfRun) = 1
     /\ contentAvailable(EntriesOfRun[1])
     /\ ~EntriesOfRun[1].hasPrevious
     /\ includes(EntriesOfRun[1].path, <<"s","r","c","/">>)
     /\ ~includes(EntriesOfRun[1].path, <<"t","e","s","t">>)
     /\ lineCountOf(EntriesOfRun[1].newContent) = 301)
    =>
        /\ \E k \in 1..Len(report.suggestions) :
            /\ isTooLargeMessage(report.suggestions[k].message)
            /\ report.suggestions[k].severity = "medium"
        /\ \E k \in 1..Len(report.suggestions) :
            /\ isNoTestMessage(report.suggestions[k].message)
            /\ report.suggestions[k].severity = "high"
        /\ report.bestPractices.testCoverage = FALSE
        /\ report.statistics.filesChanged = 1

\* the fetch of the new content of the entry throws: the file fails
fetchFailed(e) == e.hasPath /\ e.newContent = "throws"

isSourcePath(path) == endsWith(path, <<".","t","s">>) \/ endsWith(path, <<".","t","s","x">>)

isWide(s) == s.file = <<"m","u","l","t","i","p","l","e"," ","f","i","l","e","s">>

\* the findings of the files among the first k entries whose content was
\* fetched, in the order of the entries
RECURSIVE findingsOfFiles(_, _)
findingsOfFiles(entries, k) ==
    IF k = 0 THEN <<>>
    ELSE findingsOfFiles(entries, k - 1)
            \o (IF contentAvailable(entries[k])
                THEN fileSuggestions(entries[k], entries) ELSE <<>>)

\* the change-set-wide messages of the source files whose content was fetched
securityMessagesOfFiles(entries) ==
    UNION {Range(securityMessages(ContentText[entries[k].newContent])) :
            k \in {j \in 1..Len(entries) :
                    contentAvailable(entries[j]) /\ isSourcePath(entries[j].path)}}

performanceMessagesOfFiles(entries) ==
    UNION {Range(performanceMessages(ContentText[entries[k].newContent])) :
            k \in {j \in 1..Len(entries) :
                    contentAvailable(entries[j]) /\ isSourcePath(entries[j].path)}}

\* The part of C15 that does not depend on how the failed file is counted: a
\* failing file does not end the run; the findings of the files are those of
\* the files whose content was fetched, in their order, the change-set-wide
\* findings come from these files alone, and so do additions and deletions.
failureIsIsolated ==
    /\ pc = "failed" => idx = 0
    /\ Returned =>
        /\ SelectSeq(suggestions, LAMBDA s : ~isWide(s))
                = findingsOfFiles(EntriesOfRun, Len(EntriesOfRun))
        /\ {s.message : s \in {t \in Range(report.suggestions) :
                                    isWide(t) /\ t.severity = "high"}}
                = securityMessagesOfFiles(EntriesOfRun)
        /\ {s.message : s \in {t \in Range(report.suggestions) :
                                    isWide(t) /\ t.severity = "medium"}}
                = performanceMessagesOfFiles(EntriesOfRun)
        /\ Range(report.suggestions) = Range(suggestions)
        /\ Len(report.suggestions) = Len(suggestions)
        /\ report.statistics.additions = sumOfAdditions(EntriesOfRun, Len(EntriesOfRun))
        /\ report.statistics.deletions = sumOfDeletions(EntriesOfRun, Len(EntriesOfRun))

\* C15 as stated: a failure on one file is isolated, and the Report holds no
\* finding and no statistics contribution of the failed file: the statistics
\* are those of the change-set without it.
C15_AsStated ==
    /\ failureIsIsolated
    /\ Returned =>
        report.statistics.filesChanged =
            Cardinality({k \in 1..Len(EntriesOfRun) : ~fetchFailed(EntriesOfRun[k])})

\* C15 amended: a failure on one file is isolated, and the Report holds no
\* finding and no additions or deletions of the failed file; the failed file
\* is still counted in statistics.filesChanged.
C15_FailureIsIsolated ==
    /\ failureIsIsolated
    /\ Returned => report.statistics.filesChanged = Len(EntriesOfRun)

\* C15 witness: a Report for a change-set whose first file fails and whose
\* second file has findings of its own and change-set-wide ones.
C15_Witness ==
    /\ Returned
    /\ Len(EntriesOfRun) = 2
    /\ fetchFailed(EntriesOfRun[1])
    /\ contentAvailable(EntriesOfRun[2])
    /\ \E k \in 1..Len(report.suggestions) : isWide(report.suggestions[k])
    /\ \E k \in 1..Len(report.suggestions) : ~isWide(report.suggestions[k])
    /\ report.statistics.additions > 0

---------------------------------------------------------------------------
(* Outcomes of reviewPullRequest and of the handler of /api/review         *)

\* the Report is the one built from the accumulators of the run, every field
\* of it set
isCompleteReport ==
    /\ report # NoReport
    /\ report.summary = generatePRSummary(reviewedPullRequest(provider, request).pr, statistics,
                                       suggestions)
    /\ Len(report.suggestions) = Len(suggestions)
    /\ Range(report.suggestions) = Range(suggestions)
    /\ report.statistics = statistics
    /\ report.statistics.totalChanges
            = report.statistics.additions + report.statistics.deletions
    /\ report.bestPractices.commitMessages \in BOOLEAN
    /\ report.bestPractices.branchNaming \in BOOLEAN
    /\ report.bestPractices.testCoverage \in BOOLEAN
    /\ report.bestPractices.documentationUpdated \in BOOLEAN

\* C16: every call of reviewPullRequest ends with a complete Report or with
\* an error, never both and never a Report before the end; every response of
\* the handler is either the complete Report (200) or one error description
\* with no Report, and a failing step of the fetches leaves no Report behind.
C16_ReportOrError ==
    /\ pc \in {"request", "start", "files", "failed"} => report = NoReport
    /\ pc = "failed" => error # NoError
    /\ pc \in {"request", "start", "files", "done"} => error = NoError
    /\ pc = "done" => isCompleteReport
    /\ pc # "responded" => response = NoResponse
    /\ pc = "responded" =>
        \/ /\ response.status = 200
           /\ response.error = NoError
           /\ error = NoError
           /\ response.review = report
           /\ isCompleteReport
        \/ /\ response.status \in {400, 403, 404, 500}
           /\ response.error # NoError
           /\ response.review = NoReport
           /\ report = NoReport

\* C16 witness: the handler has answered 500 after the last fetch of
\* reviewPullRequest, that of the commits, failed.
C16_Witness ==
    /\ pc = "responded"
    /\ response.status = 500
    /\ response.error = ProviderFailure
    /\ Len(calls) = 10
    /\ calls[10] = "getPullRequestCommits"
    /\ report = NoReport

\* the call has come to its end
Finished ==
    IF request.via = "route" THEN pc = "responded" ELSE pc \in {"done", "failed"}

\* the error the caller gets: the body of the response, or the Error thrown
errorOfCall == IF request.via = "route" THEN response.error ELSE error

\* a provider call of the run has thrown
faultHappened == provider.fault >= 1 /\ provider.fault <= Len(calls)

\* the prId parameter is missing
missingPrId == request.via = "route" /\ (~request.present \/ request.text = <<>>)

\* the identifier the caller asks for
requestedId == pullRequestIdOf(request)

\* the change-set asked for does not exist: no pull request has the
\* identifier, or there is no latest pull request of the user when none is
\* named
requestedIsMissing ==
    IF requestedId.defined
    THEN \/ requestedId.isNaN
         \/ ~(provider.exists /\ requestedId.value = provider.pr.pullRequestId)
            /\ ~(provider.other.exists
                    /\ requestedId.value = provider.other.pr.pullRequestId)
    ELSE ~(provider.exists /\ provider.createdByUser)
            /\ ~(provider.other.exists /\ provider.other.createdByUser)

\* the number of times the provider call of that name was made
timesCalled(name) == Cardinality({k \in 1..Len(calls) : calls[k] = name})

\* C20: a request for a change-set that does not exist ends, once, in a
\* not-found outcome: 404 "Pull request not found" from the handler, or the
\* "Pull request <id> not found" or "No pull request found to review" error of
\* reviewPullRequest; a missing prId, token or project ends in the error that
\* names it; and no provider call is made after one has thrown or has found
\* nothing, so none is attempted a second time.
C20_MissingInputsSurfaceOnce ==
    /\ faultHappened => Len(calls) = provider.fault
    /\ (Finished /\ missingPrId) =>
        /\ response.status = 400 /\ response.error = <<"P","R"," ","I","D"," ","i","s"," ","r","e","q","u","i","r","e","d">>
        /\ calls = <<>>
    /\ (Finished /\ ~missingPrId /\ ~provider.hasToken) =>
        /\ errorOfCall = TokenError
        /\ request.via = "route" => response.status = 500
        /\ calls = <<>>
    /\ (Finished /\ ~missingPrId /\ provider.hasToken /\ ~provider.hasProject
            /\ ~faultHappened) =>
        /\ errorOfCall = ProjectError
        /\ request.via = "route" => response.status = 500
        /\ calls = <<"connect", "getGitApi">>
    /\ (Finished /\ ~missingPrId /\ provider.hasToken /\ provider.hasProject
            /\ provider.hasUserId /\ ~faultHappened /\ requestedIsMissing) =>
        /\ report = NoReport
        /\ \/ /\ request.via = "route"
              /\ response.status = 404 /\ response.error = <<"P","u","l","l"," ","r","e","q","u","e","s","t"," ","n","o","t"," ","f","o","u","n","d">>
              /\ calls[Len(calls)] = "getPullRequests"
              /\ timesCalled("getPullRequests") = 1
              /\ timesCalled("getPullRequestById") = 0
           \/ /\ errorOfCall = notFoundError(requestedId)
              /\ request.via = "route" => response.status = 500
              /\ calls[Len(calls)] = "getPullRequestById"
              /\ timesCalled("getPullRequestById") = 1
           \/ /\ request.via = "direct"
              /\ ~requestedId.defined
              /\ errorOfCall = NoPullRequestError
              /\ calls[Len(calls)] = "getPullRequests"
              /\ timesCalled("getPullRequests") = 1

\* C20 witness: the handler has answered 404 to a request for the pull request
\* 9, which the repository does not hold, after one look-up.
C20_Witness ==
    /\ pc = "responded"
    /\ request = routeRequest(<<"9">>)
    /\ provider.exists /\ provider.hasToken /\ provider.hasProject
    /\ response.status = 404
    /\ calls = <<"connect", "getGitApi", "getRepository", "getPullRequests">>

---------------------------------------------------------------------------
(* The detectors                                                           *)

\* new is old with one block of minBlockSize lines moved by more than
\* minBlockSize lines
oneBlockRelocated(old, new) ==
    \E from, to \in 1..(Len(old) - minBlockSize + 1) :
        /\ to - from > minBlockSize \/ from - to > minBlockSize
        /\ new = relocate(old, from, to)

\* C17: findMovedBlocks returns 0 when the new lines are the old lines, and 1
\* when the old content has 20 lines and the new content is the old one with
\* one block of 5 lines moved by more than 5 lines, whatever the lines are.
C17_MovedBlocksCount ==
    pc = "diffed" =>
        /\ diff.newLines = diff.oldLines => diff.movedBlocks = 0
        /\ (Len(diff.oldLines) = 20 /\ oneBlockRelocated(diff.oldLines, diff.newLines))
                => diff.movedBlocks = 1

\* the position of the brace that closes the brace at the position p of s: the
\* first after p at which the braces since p balance; 0 when none does
closingBrace(s, p) ==
    LET closes == {q \in (p + 1)..Len(s) :
                    /\ s[q] = "}"
                    /\ Cardinality({i \in p..q : s[i] = "{"})
                            = Cardinality({i \in p..q : s[i] = "}"})}
    IN  IF closes = {} THEN 0 ELSE Min(closes)

\* the position of the brace that opens the body of the function declared at
\* the position i of s (function, a name, a parameter list, a brace); 0 when no
\* function is declared there
bodyOpening(s, i) ==
    IF ~occursAt(s, <<"f","u","n","c","t","i","o","n">>, i) THEN 0
    ELSE
    LET a == i + 8
        b == a + run(s, WhiteSpace, a)
        c == b + run(s, WordChar, b)
        d == c + run(s, WhiteSpace, c)
        e == d + 1 + runNot(s, {")"}, d + 1)
        f == e + 1 + run(s, WhiteSpace, e + 1)
    IN  IF /\ b > a
           /\ c > b
           /\ occursAt(s, <<"(">>, d)
           /\ occursAt(s, <<")">>, e)
           /\ occursAt(s, <<"{">>, f)
           /\ closingBrace(s, f) # 0
        THEN f ELSE 0

\* the number of branching and logical tokens (if, while, for, &&, ||, switch,
\* catch) of a text
tokensOf(text) == Len(globalMatches([i \in 1..Len(text) |-> branchEnd(text, i)], 1))

\* the function blocks of a text that hold more than 10 such tokens, each by
\* the position of its declaration
complexBlocksOf(text) ==
    {i \in 1..Len(text) :
        /\ bodyOpening(text, i) # 0
        /\ tokensOf(SubSeq(text, bodyOpening(text, i),
                           closingBrace(text, bodyOpening(text, i)))) > 10}

ComplexBlocks == [name \in ContentNames |-> Cardinality(complexBlocksOf(ContentText[name]))]

isComplexityFinding(s) ==
    /\ includes(toLowerCase(s.message), <<"h","i","g","h"," ","c","y","c","l","o","m","a","t","i","c"," ","c","o","m","p","l","e","x","i","t","y">>)
    /\ s.severity = "high"

\* C18: for every analysed source file, the Report holds exactly one high
\* "high cyclomatic complexity" finding for each function block of the file
\* that contains more than 10 branching or logical tokens, and none for a
\* block with 10 or fewer.
C18_OneFindingPerComplexBlock ==
    Returned =>
        \A k \in 1..Len(EntriesOfRun) :
            (contentAvailable(EntriesOfRun[k]) /\ isSourcePath(EntriesOfRun[k].path)) =>
                Cardinality({j \in 1..Len(report.suggestions) :
                        /\ report.suggestions[j].file = EntriesOfRun[k].path
                        /\ isComplexityFinding(report.suggestions[j])})
                  = Cardinality({pair \in (1..Len(EntriesOfRun)) \X (1..2) :
                        /\ contentAvailable(EntriesOfRun[pair[1]])
                        /\ EntriesOfRun[pair[1]].path = EntriesOfRun[k].path
                        /\ pair[2] <= ComplexBlocks[EntriesOfRun[pair[1]].newContent]})

\* the messages the React checks can give
ReactMessages ==
    UNION {{ReactIssues[name][i].message : i \in 1..Len(ReactIssues[name])} : name \in ContentNames}

\* the entries of the run that are source files whose content was fetched
SourcesOfRun ==
    {k \in 1..Len(EntriesOfRun) :
        contentAvailable(EntriesOfRun[k]) /\ isSourcePath(EntriesOfRun[k].path)}

\* C19: the complexity, security, performance, style and diff detectors give
\* findings only for files whose path ends in .ts or .tsx, and the React
\* detector only for files whose path ends in .tsx; a file with another
\* extension contributes no finding of these detectors, whatever its content.
C19_DetectorsGatedByExtension ==
    Returned =>
        /\ \A j \in 1..Len(report.suggestions) :
            LET s == report.suggestions[j]
            IN  /\ (/\ \E k \in 1..Len(EntriesOfRun) :
                            EntriesOfRun[k].hasPath /\ EntriesOfRun[k].path = s.file
                    /\ ~isSourcePath(s.file))
                        => isNoTestMessage(s.message)
                /\ s.message \in ReactMessages => endsWith(s.file, <<".","t","s","x">>)
                /\ isWide(s) =>
                        \E k \in SourcesOfRun :
                            s.message \in Range(SecurityMessages[EntriesOfRun[k].newContent])
                                    \cup Range(PerformanceMessages[EntriesOfRun[k].newContent])

\* a returned run with a documentation file whose content holds what the
\* security detector reports, and a .ts file whose content holds what the React
\* detector reports
C19_Witness ==
    /\ Returned
    /\ \E k \in 1..Len(EntriesOfRun) :
        /\ contentAvailable(EntriesOfRun[k])
        /\ EntriesOfRun[k].path = PathMd
        /\ SecurityMessages[EntriesOfRun[k].newContent] # <<>>
    /\ \E k \in 1..Len(EntriesOfRun) :
        /\ contentAvailable(EntriesOfRun[k])
        /\ EntriesOfRun[k].path = PathTs
        /\ ReactIssues[EntriesOfRun[k].newContent] # <<>>

---------------------------------------------------------------------------
(* Two calls of reviewPullRequest in flight at once                        *)

\* The statistics, the suggestions and the two Sets are locals of the call
\* (lines 572-581): each call has its own.  JavaScript runs one call at a time
\* and leaves it only at an await; the locals of the call that waits are kept
\* in peer.

\* the locals of the running call, as they are kept while it waits
suspended(id) ==
    [id |-> id, provider |-> provider, request |-> request, pc |-> pc, calls |-> calls,
     error |-> error, idx |-> idx, statistics |-> statistics, suggestions |-> suggestions,
     securityIssues |-> securityIssues, performanceIssues |-> performanceIssues,
     report |-> report]

\* is the running call at an await (lines 526-565, 590, 606), or finished
awaiting ==
    \/ pc \in {"start", "done", "failed"}
    \/ /\ pc = "files"
       /\ provider.changes.hasEntries
       /\ idx <= Len(provider.changes.changeEntries)

\* the same with the two Sets kept outside the function, one pair for all calls
Resume_sharedIssues ==
    /\ peer.id # 0
    /\ awaiting
    /\ peer.pc \notin {"done", "failed"}
    /\ peer' = suspended(3 - peer.id)
    /\ provider' = peer.provider
    /\ request' = peer.request
    /\ pc' = peer.pc
    /\ calls' = peer.calls
    /\ error' = peer.error
    /\ idx' = peer.idx
    /\ statistics' = peer.statistics
    /\ suggestions' = peer.suggestions
    /\ report' = peer.report
    /\ UNCHANGED <<securityIssues, performanceIssues, response, diff>>

\* the running call waits at an await and the other call goes on
Resume ==
    /\ peer.id # 0
    /\ awaiting
    /\ peer.pc \notin {"done", "failed"}
    /\ peer' = suspended(3 - peer.id)
    /\ provider' = peer.provider
    /\ request' = peer.request
    /\ pc' = peer.pc
    /\ calls' = peer.calls
    /\ error' = peer.error
    /\ idx' = peer.idx
    /\ statistics' = peer.statistics
    /\ suggestions' = peer.suggestions
    /\ securityIssues' = peer.securityIssues
    /\ performanceIssues' = peer.performanceIssues
    /\ report' = peer.report
    /\ UNCHANGED <<response, diff>>

\* the files of the change-sets reviewed at once: contents with messages in
\* common, and a file whose fetch fails
PairEntries ==
    {entry(PathTs, "KeyOne", FALSE, "absent"), entry(PathTsx, "Secret", FALSE, "absent"),
     entry(PathTs, "KeyTwo", TRUE, "OldLong"), entry(PathTs, "throws", FALSE, "absent")}

PairWorlds ==
    {world(pullRequest(RefFeature), changesOf(files), <<commit(CommitGood)>>) :
        files \in {<<>>} \cup {<<a>> : a \in PairEntries}
                         \cup {<<a, b>> : a \in PairEntries, b \in PairEntries}}
    \cup {[world(pullRequest(RefFeature), changesOf(<<>>), <<commit(CommitGood)>>)
                EXCEPT !.fault = 1]}

\* two calls are made, each on what its provider holds, before either has run
InitPair ==
    /\ provider \in PairWorlds
    /\ request = directRequest(number(7))
    /\ pc = "start"
    /\ calls = <<>>
    /\ error = NoError
    /\ response = NoResponse
    /\ diff = NoDiff
    /\ idx = 0
    /\ statistics = [filesChanged |-> 0, additions |-> 0, deletions |-> 0, totalChanges |-> 0]
    /\ suggestions = <<>>
    /\ securityIssues = <<>>
    /\ performanceIssues = <<>>
    /\ report = NoReport
    /\ peer \in {[id |-> 2, provider |-> w, request |-> directRequest(number(7)),
                   pc |-> "start", calls |-> <<>>, error |-> NoError, idx |-> 0,
                   statistics |-> [filesChanged |-> 0, additions |-> 0, deletions |-> 0,
                                   totalChanges |-> 0],
                   suggestions |-> <<>>, securityIssues |-> <<>>,
                   performanceIssues |-> <<>>, report |-> NoReport] : w \in PairWorlds}

NextPair == FetchChangeSet \/ FetchFails \/ AnalyzeFile \/ BuildReport \/ Resume

\* two reviews that interleave at their awaits
SpecPair == InitPair /\ [][NextPair]_vars

---------------------------------------------------------------------------
(* Claims about concurrent runs                                            *)

\* the locals of a call that runs alone on what the provider p holds, after
\* the first k change entries
RECURSIVE aloneAfter(_, _)
aloneAfter(p, k) ==
    IF k = 0
    THEN [statistics |-> [filesChanged |-> filesChangedOf(p.changes), additions |-> 0,
                          deletions |-> 0, totalChanges |-> 0],
          suggestions |-> <<>>, securityIssues |-> <<>>, performanceIssues |-> <<>>]
    ELSE LET before == aloneAfter(p, k - 1)
             change == p.changes.changeEntries[k]
             source == endsWith(change.path, <<".","t","s">>) \/ endsWith(change.path, <<".","t","s","x">>)
         IN  IF ~isAnalyzed(change) THEN before
             ELSE [statistics |-> trackChanges(before.statistics, change),
                   suggestions |-> before.suggestions
                                    \o fileSuggestions(change, p.changes.changeEntries),
                   securityIssues |->
                        IF source
                        THEN checkSecurityIssues(change.newContent, change.path,
                                                 before.securityIssues)
                        ELSE before.securityIssues,
                   performanceIssues |->
                        IF source
                        THEN checkPerformanceIssues(change.newContent, change.path,
                                                    before.performanceIssues)
                        ELSE before.performanceIssues]

\* the Report of a call that runs alone on what the provider p holds
aloneReport(p) ==
    LET entries == IF p.changes.hasEntries THEN p.changes.changeEntries ELSE <<>>
        locals == aloneAfter(p, Len(entries))
        stats == withTotalChanges(locals.statistics)
        all == locals.suggestions
                \o changeSetWide(locals.securityIssues, "high")
                \o changeSetWide(locals.performanceIssues, "medium")
        sorted == sortBySeverity(all)
    IN  [summary |-> generatePRSummary(p.pr, stats, all),
         suggestions |-> sorted,
         statistics |-> stats,
         bestPractices |->
            [commitMessages |-> analyzeCommitMessages(p.commits),
             branchNaming |-> analyzeBranchNaming(sourceBranchOf(p.pr)).isValid,
             testCoverage |-> testCoverageOf(sorted),
             documentationUpdated |-> analyzeDocumentation(entries).hasUpdates]]

\* the error of a call that runs alone on what the provider p holds
aloneError(p, req) ==
    fetchChangeSet([calls |-> <<>>, error |-> NoError], p, pullRequestIdOf(req)).error

\* C21: two calls of reviewPullRequest that interleave at their awaits share
\* no state: each returns the Report, or throws the error, that it gives when
\* it runs alone on its own change-set.
C21_RunsAreIndependent ==
    /\ pc = "done" => report = aloneReport(provider)
    /\ pc = "failed" => error = aloneError(provider, request)
    /\ (peer.id # 0 /\ peer.pc = "done") => peer.report = aloneReport(peer.provider)
    /\ (peer.id # 0 /\ peer.pc = "failed") =>
            peer.error = aloneError(peer.provider, peer.request)

\* one call has returned its Report while the other waits in the middle of its
\* files; both have recorded security messages, one of them in common, and
\* their change-sets differ
C21_Witness ==
    /\ pc = "done"
    /\ peer.id # 0
    /\ peer.pc = "files"
    /\ peer.idx = 2
    /\ peer.provider # provider
    /\ \E i \in 1..Len(securityIssues) : \E j \in 1..Len(peer.securityIssues) :
            securityIssues[i] = peer.securityIssues[j]
    /\ securityIssues # peer.securityIssues

---------------------------------------------------------------------------
(* Claims about the diff detector                                          *)

\* the findings of every detector but the diff detector, and of the test
\* coverage check, for the file of an entry whose content was fetched
findingsWithoutDiff(e, entries) ==
    (IF isSourcePath(e.path)
     THEN withFile(e.path, ComplexityIssues[e.newContent])
          \o withFile(e.path, StyleIssues[e.newContent])
          \o (IF endsWith(e.path, <<".","t","s","x">>)
              THEN withFile(e.path, ReactIssues[e.newContent]) ELSE <<>>)
     ELSE <<>>)
    \o checkTestCoverage(e.path, entries)

\* the findings of the files among the first k entries, those of a file whose
\* prior content is unavailable taken without the diff detector
RECURSIVE findingsSkippingDiff(_, _)
findingsSkippingDiff(entries, k) ==
    IF k = 0 THEN <<>>
    ELSE findingsSkippingDiff(entries, k - 1)
            \o (IF ~contentAvailable(entries[k]) THEN <<>>
                ELSE IF priorAvailable(entries[k])
                THEN fileSuggestions(entries[k], entries)
                ELSE findingsWithoutDiff(entries[k], entries))

\* the entries whose content was fetched and whose prior content is unavailable
WithoutPrior ==
    {k \in 1..Len(EntriesOfRun) :
        contentAvailable(EntriesOfRun[k]) /\ ~priorAvailable(EntriesOfRun[k])}

\* C22: when the prior content of a file is unavailable (no previous version,
\* or its fetch fails), the diff detector is skipped for the file and the file
\* does not fail: the other detectors run on it, its additions are counted,
\* and it gets no moved-block finding.
C22_DiffSkippedWithoutPrior ==
    Returned =>
        /\ SelectSeq(suggestions, LAMBDA s : ~isWide(s))
                = findingsSkippingDiff(EntriesOfRun, Len(EntriesOfRun))
        /\ report.statistics.additions = sumOfAdditions(EntriesOfRun, Len(EntriesOfRun))
        /\ \A k \in WithoutPrior :
            /\ isSourcePath(EntriesOfRun[k].path) =>
                \A m \in Range(SecurityMessages[EntriesOfRun[k].newContent])
                            \cup Range(PerformanceMessages[EntriesOfRun[k].newContent]) :
                    \E s \in Range(report.suggestions) : isWide(s) /\ s.message = m
            /\ (\A j \in 1..Len(EntriesOfRun) :
                    EntriesOfRun[j].path = EntriesOfRun[k].path => j \in WithoutPrior)
                => \A s \in Range(report.suggestions) :
                        s.file = EntriesOfRun[k].path => s.message # MovedBlocksMessage

\* a Report for a change-set with a source file whose previous version exists
\* and whose fetch fails, the file having findings of its own and a
\* change-set-wide one
C22_Witness ==
    /\ Returned
    /\ \E k \in WithoutPrior :
        /\ EntriesOfRun[k].hasPrevious
        /\ EntriesOfRun[k].oldContent = "throws"
        /\ isSourcePath(EntriesOfRun[k].path)
        /\ StyleIssues[EntriesOfRun[k].newContent] # <<>>
        /\ SecurityMessages[EntriesOfRun[k].newContent] # <<>>
    /\ report.statistics.additions > 0

\* C23: findMovedBlocks does not count overlapping windows: after the window
\* that starts at the old line i is counted, the next window examined starts
\* at the line i + 5, so two counted windows cover disjoint ranges of old
\* lines and the count is at most the number of old lines divided by 5,
\* rounded down.
C23_CountedWindowsAreDisjoint ==
    pc = "diffed" =>
        /\ diff.movedBlocks = Len(diff.counted)
        /\ \A a \in 1..Len(diff.counted) : \A b \in 1..Len(diff.counted) :
                a < b => diff.counted[a] + minBlockSize <= diff.counted[b]
        /\ \A a \in 1..Len(diff.counted) :
                diff.counted[a] >= 0 /\ diff.counted[a] + minBlockSize <= Len(diff.oldLines)
        /\ diff.movedBlocks <= Len(diff.oldLines) \div minBlockSize

\* two windows counted one right after the other: the second starts where the
\* first ends
C23_Witness ==
    /\ pc = "diffed"
    /\ Len(diff.counted) >= 2
    /\ diff.counted[2] = diff.counted[1] + minBlockSize

isMovedBlocksFinding(issue) ==
    /\ includes(toLowerCase(issue.message), <<"b","l","o","c","k","s"," ","o","f"," ","c","o","d","e"," ","a","p","p","e","a","r"," ","t","o"," ","b","e"," ","m","o","v","e","d">>)
    /\ issue.severity = "medium"

\* C24: the diff detector gives exactly one medium "blocks of code appear to
\* be moved" finding when findMovedBlocks counts more than 3 moved blocks, and
\* nothing when it counts 3 or fewer.
C24_FindingAboveThreeBlocks ==
    pc = "diffed" =>
        IF diff.movedBlocks > 3
        THEN Len(diff.issues) = 1 /\ isMovedBlocksFinding(diff.issues[1])
        ELSE diff.issues = <<>>

\* the detector has run on contents for which 4 blocks are counted
C24_Witness ==
    /\ pc = "diffed"
    /\ diff.movedBlocks = 4
    /\ Len(diff.issues) = 1

---------------------------------------------------------------------------
(* Claims about the summary and the order of the findings                  *)

\* the last two lines of a summary for these numbers
summaryLines(high, medium, filesChanged, additions, deletions) ==
    <<"F","o","u","n","d"," ">> \o numberToString(high) \o <<" ","h","i","g","h","-","s","e","v","e","r","i","t","y"," ","a","n","d"," ">>
    \o numberToString(medium) \o <<" ","m","e","d","i","u","m","-","s","e","v","e","r","i","t","y"," ","i","s","s","u","e","s",".">> \o <<"\n">>
    \o <<"C","h","a","n","g","e","d"," ">> \o numberToString(filesChanged) \o <<" ","f","i","l","e","s"," ","w","i","t","h"," ","+">>
    \o numberToString(additions) \o <<"/","-">> \o numberToString(deletions) \o <<" ","l","i","n","e","s",".">>

\* C25: the summary string reports the numbers of high-severity and of
\* medium-severity findings of the returned suggestions, the change-set-wide
\* ones included, and the filesChanged, additions and deletions of the
\* returned statistics.
C25_SummaryMatchesReport ==
    Returned =>
           endsWith(report.summary,
                <<"\n">> \o summaryLines(
                    Cardinality({k \in 1..Len(report.suggestions) :
                                    report.suggestions[k].severity = "high"}),
                    Cardinality({k \in 1..Len(report.suggestions) :
                                    report.suggestions[k].severity = "medium"}),
                    report.statistics.filesChanged,
                    report.statistics.additions,
                    report.statistics.deletions))

\* a Report with change-set-wide findings of both severities, findings of
\* files, additions and deletions
C25_Witness ==
    /\ Returned
    /\ \E k \in 1..Len(report.suggestions) :
            isWide(report.suggestions[k]) /\ report.suggestions[k].severity = "high"
    /\ \E k \in 1..Len(report.suggestions) :
            isWide(report.suggestions[k]) /\ report.suggestions[k].severity = "medium"
    /\ \E k \in 1..Len(report.suggestions) : ~isWide(report.suggestions[k])
    /\ report.statistics.additions > 0
    /\ report.statistics.deletions > 0

\* the values of a sequence in the order in which each is first seen
RECURSIVE firstSeen(_)
firstSeen(s) ==
    IF s = <<>> THEN <<>>
    ELSE LET before == firstSeen(SubSeq(s, 1, Len(s) - 1))
         IN  IF s[Len(s)] \in Range(before) THEN before ELSE Append(before, s[Len(s)])

\* the messages a change-set-wide detector gives for the source files among
\* the first k entries whose content was fetched, file after file
RECURSIVE messagesOfFiles(_, _, _)
messagesOfFiles(table, entries, k) ==
    IF k = 0 THEN <<>>
    ELSE messagesOfFiles(table, entries, k - 1)
            \o (IF contentAvailable(entries[k]) /\ isSourcePath(entries[k].path)
                THEN table[entries[k].newContent] ELSE <<>>)

\* how many times x is in the sequence s
timesIn(s, x) == Cardinality({i \in 1..Len(s) : s[i] = x})

\* C26: the change-set-wide findings are appended after every file has been
\* processed, the security findings before the performance findings and each
\* group in the order in which its messages were first seen; each has the
\* whole-change-set sentinel as its file, severity high for security and
\* medium for performance; the returned suggestions are a permutation of the
\* findings of the files and one finding for each distinct change-set-wide
\* message.
C26_WideFindingsAfterFiles ==
    /\ \A k \in 1..Len(suggestions) : pc = "files" => ~isWide(suggestions[k])
    /\ Returned =>
        LET files == findingsOfFiles(EntriesOfRun, Len(EntriesOfRun))
            security == firstSeen(messagesOfFiles(SecurityMessages, EntriesOfRun,
                                                  Len(EntriesOfRun)))
            performance == firstSeen(messagesOfFiles(PerformanceMessages, EntriesOfRun,
                                                     Len(EntriesOfRun)))
            appended ==
                files
                \o [k \in 1..Len(security) |->
                        [file |-> <<"m","u","l","t","i","p","l","e"," ","f","i","l","e","s">>, message |-> security[k],
                         severity |-> "high"]]
                \o [k \in 1..Len(performance) |->
                        [file |-> <<"m","u","l","t","i","p","l","e"," ","f","i","l","e","s">>, message |-> performance[k],
                         severity |-> "medium"]]
        IN  /\ suggestions = appended
            /\ Len(report.suggestions) = Len(appended)
            /\ \A x \in Range(appended) \cup Range(report.suggestions) :
                    timesIn(report.suggestions, x) = timesIn(appended, x)

\* a Report for two source files that give the same security message, with two
\* security findings for the whole change-set after the findings of the files,
\* which the sort puts in another order
C26_Witness ==
    /\ Returned
    /\ Len(EntriesOfRun) = 2
    /\ \A k \in 1..2 : contentAvailable(EntriesOfRun[k]) /\ isSourcePath(EntriesOfRun[k].path)
    /\ Range(SecurityMessages[EntriesOfRun[1].newContent])
            \cap Range(SecurityMessages[EntriesOfRun[2].newContent]) # {}
    /\ Len(securityIssues) >= 2
    /\ \E k \in 1..Len(suggestions) : ~isWide(suggestions[k])
    /\ report.suggestions # suggestions

---------------------------------------------------------------------------
(* Claims about the pull request that is looked up and reviewed            *)

\* the fetch of reviewPullRequest has run, to its end or to an error
Fetched == pc \in {"files", "done", "failed"}

\* what getLatestPullRequests() returns on the provider of the run
latestOfUser == getLatestPullRequests([calls |-> <<>>, error |-> NoError], provider, Undefined)

\* the Report is of the pull request of that identifier
isReportOf(review, id) ==
    startsWith(review.summary, <<"R","e","v","i","e","w"," ","o","f"," ","P","R"," ","#">> \o numberToString(id) \o <<":"," ">>)

\* C27: called without an identifier, reviewPullRequest reviews the pull
\* request that getLatestPullRequests returns, and when there is none it fails
\* with "No pull request found to review" before it fetches a pull request,
\* changes or commits; called with an identifier, 0 included, it does not look
\* the latest pull request up and reviews the pull request of that identifier.
C27_LatestOnlyWithoutIdentifier ==
    (request.via = "direct" /\ Fetched) =>
        IF request.id.defined
        THEN /\ timesCalled("getPullRequests") = 0
             /\ pc # "failed" =>
                    /\ hasPullRequest(provider, request.id)
                    /\ timesCalled("getPullRequestById") = 1
             /\ pc = "done" => isReportOf(report, request.id.value)
        ELSE /\ (latestOfUser.error = NoError /\ ~latestOfUser.found) =>
                    /\ pc = "failed"
                    /\ error = NoPullRequestError
             /\ error = NoPullRequestError =>
                    /\ ~latestOfUser.found
                    /\ timesCalled("getPullRequestById") = 0
                    /\ timesCalled("getPullRequestIterations") = 0
                    /\ timesCalled("getPullRequestIterationChanges") = 0
                    /\ timesCalled("getPullRequestCommits") = 0
             /\ pc # "failed" =>
                    /\ latestOfUser.found
                    /\ timesCalled("getPullRequests") = 1
             /\ pc = "done" => isReportOf(report, latestOfUser.pullRequestId)

\* reviewPullRequest(0) has returned the Report of the pull request 0 of a
\* repository in which the user has a latest pull request of another
\* identifier
C27_Witness ==
    /\ request.via = "direct"
    /\ request.id = number(0)
    /\ pc = "done"
    /\ latestOfUser.found
    /\ latestOfUser.pullRequestId # 0

\* C28: the pull request whose existence and ownership the handler checks is
\* the one that is reviewed: for every value of prId, "0" and text that is no
\* number included, a Report is returned only for a pull request of the
\* identifier asked for that the authenticated user created.
C28_ReviewedIsChecked ==
    (request.via = "route" /\ response.status = 200) =>
        /\ ~parseInt(request.text).isNaN
        /\ isReportOf(response.review, parseInt(request.text).value)
        /\ \E k \in 1..Len(pullRequestsOf(provider)) :
                /\ pullRequestsOf(provider)[k].pr.pullRequestId = parseInt(request.text).value
                /\ pullRequestsOf(provider)[k].createdByUser

---------------------------------------------------------------------------
(* Claims about the responses of the handler                               *)

\* what the lookup of the handler gives for the request
lookup ==
    getLatestPullRequests([calls |-> <<>>, error |-> NoError], provider,
                          parseInt(request.text))

\* reviewPullRequest has been called by the handler
reviewInvoked ==
    \/ pc \in {"start", "files", "done", "failed"}
    \/ pc = "responded" /\ Len(calls) > Len(lookup.calls)

\* the guards of the handler, in their order, what each status tells, and
\* that the handler goes on to a response
guardsInOrder ==
    request.via = "route" =>
        /\ response.sent = IF pc = "responded" THEN 1 ELSE 0
        /\ response # NoResponse <=> pc = "responded"
        /\ pc \in {"done", "failed"} => ENABLED GETResponds
        /\ pc = "responded" =>
            /\ response.status \in {200, 400, 403, 404, 500}
            /\ missingPrId <=> response.status = 400
            /\ response.status = 400 => calls = <<>>
            /\ response.status = 404 <=>
                    (~missingPrId /\ lookup.error = NoError /\ ~lookup.found)
            /\ response.status = 403 <=>
                    /\ ~missingPrId
                    /\ lookup.error = NoError
                    /\ lookup.found
                    /\ ~lookup.isAuthenticatedUserPR
            /\ response.status \in {403, 404} => calls = lookup.calls
            /\ response.status = 500 =>
                    /\ response.error # NoError
                    /\ lookup.error # NoError \/ error # NoError
            /\ response.status = 200 <=> (report # NoReport /\ error = NoError)
            /\ response.status = 200 =>
                    response.review = report /\ response.error = NoError /\ isCompleteReport
            /\ response.status # 200 => response.review = NoReport /\ response.error # NoError
        /\ reviewInvoked =>
            /\ ~missingPrId
            /\ lookup.error = NoError
            /\ lookup.found
            /\ lookup.isAuthenticatedUserPR

\* C29: every request to the handler of /api/review gets exactly one response,
\* and the guards run in a fixed order: a missing prId gives 400 before any
\* provider call; a pull request that is not found gives 404; one that the
\* authenticated user did not create gives 403; reviewPullRequest is called
\* only when the three guards have passed; an error thrown gives 500; only a
\* review that succeeds gives 200 with the Report.
\* (One response: the handler answers when reviewPullRequest has returned or
\* thrown, as it does when a guard fails, and it has returned one response when
\* it is over and none before.)
C29_OneResponseGuardsInOrder ==
    guardsInOrder

\* the handler has answered 200 with the Report, after the lookup and the
\* review
C29_Witness ==
    /\ request.via = "route"
    /\ pc = "responded"
    /\ response.status = 200
    /\ response.review # NoReport
    /\ Len(calls) > Len(lookup.calls)

=============================================================================
